---- MODULE Spec2Model ----
(***************************************************************************)
(* Model of sftpgw: an SFTP gateway that authenticates a client by handing *)
(* its credential pair to AWS STS, offers a write-only virtual directory,  *)
(* buffers every uploaded file in memory and hands it to S3 on Close.      *)
(*                                                                         *)
(* Strings whose characters matter (paths) are sequences of one-character  *)
(* strings; opaque strings (credentials, account ids, addresses, error     *)
(* texts) are TLA+ strings.                                                *)
(***************************************************************************)
EXTENDS Integers, Sequences, FiniteSets, TLC

(***************************************************************************)
(* Bounds of the model                                                     *)
(***************************************************************************)
\* longest path string enumerated for the path guard
MaxPathLen == 6
\* Config.MaxFileSize of the modelled server instance (bytes)
MaxFileSize == 2
\* number of TCP connections the listener hands out
NumConns == 2
\* number of FileWriter/FileUpload pairs created over a run
MaxWriters == 2
\* longest byte slice of one WriteAt
MaxChunk == 2

\* width in bits of the scaled-down two's-complement integer that stands for int64
IntBits == 5

(***************************************************************************)
(* Character strings                                                       *)
(***************************************************************************)
\* alphabet of the enumerated path strings
Chars == {"/", ".", "u", "a"}

SeqsUpTo(S, n) == UNION {[1..k -> S] : k \in 0..n}

Last(s) == s[Len(s)]

Front(s) == SubSeq(s, 1, Len(s) - 1)

\* strings.HasPrefix
HasPrefix(s, prefix) ==
    /\ Len(s) >= Len(prefix)
    /\ SubSeq(s, 1, Len(prefix)) = prefix

\* strings.Split(s, "/"): the segments between separators (n separators give n+1 segments)
RECURSIVE SplitFrom(_, _, _)
SplitFrom(s, i, cur) ==
    IF i > Len(s) THEN <<cur>>
    ELSE IF s[i] = "/" THEN <<cur>> \o SplitFrom(s, i + 1, <<>>)
    ELSE SplitFrom(s, i + 1, Append(cur, s[i]))

Split(s) == SplitFrom(s, 1, <<>>)

\* strings.Join(segs, "/")
RECURSIVE Join(_)
Join(segs) ==
    IF segs = <<>> THEN <<>>
    ELSE IF Len(segs) = 1 THEN segs[1]
    ELSE segs[1] \o <<"/">> \o Join(Tail(segs))

DotDot == <<".", ".">>

Dot == <<".">>

(***************************************************************************)
(* path/filepath (Unix)                                                    *)
(***************************************************************************)
\* filepath.Clean's element loop: drop empty and "." elements, let ".." remove
\* the element before it, keep a leading ".." only in an unrooted path
RECURSIVE CleanElems(_, _, _)
CleanElems(segs, rooted, out) ==
    IF segs = <<>> THEN out
    ELSE LET e == Head(segs)
             rest == Tail(segs)
         IN IF e = <<>> \/ e = Dot THEN CleanElems(rest, rooted, out)
            ELSE IF e = DotDot
                 THEN IF out # <<>> /\ Last(out) # DotDot
                      THEN CleanElems(rest, rooted, Front(out))
                      ELSE IF ~rooted
                           THEN CleanElems(rest, rooted, Append(out, e))
                           ELSE CleanElems(rest, rooted, out)
                 ELSE CleanElems(rest, rooted, Append(out, e))

\* filepath.Clean
Clean(path) ==
    IF path = <<>> THEN Dot
    ELSE LET rooted == path[1] = "/"
             els == CleanElems(Split(path), rooted, <<>>)
         IN IF rooted THEN <<"/">> \o Join(els)
            ELSE IF els = <<>> THEN Dot ELSE Join(els)

\* filepath.IsAbs
IsAbs(path) == HasPrefix(path, <<"/">>)

\* the elements Rel's loop walks over, after the leading separator of a rooted path
RelElems(p) ==
    IF p = <<>> \/ p = <<"/">> THEN <<>>
    ELSE IF p[1] = "/" THEN Split(Tail(p)) ELSE Split(p)

\* number of leading elements two element lists share
RECURSIVE CommonLen(_, _)
CommonLen(b, t) ==
    IF b = <<>> \/ t = <<>> \/ Head(b) # Head(t) THEN 0
    ELSE 1 + CommonLen(Tail(b), Tail(t))

RECURSIVE Ups(_)
Ups(n) == IF n = 0 THEN <<>> ELSE <<DotDot>> \o Ups(n - 1)

\* filepath.Rel: [err, path]
Rel(basepath, targpath) ==
    LET base0 == Clean(basepath)
        targ == Clean(targpath)
        base == IF base0 = Dot THEN <<>> ELSE base0
        baseSlashed == Len(base) > 0 /\ base[1] = "/"
        targSlashed == Len(targ) > 0 /\ targ[1] = "/"
        b == RelElems(base)
        t == RelElems(targ)
        k == CommonLen(b, t)
    IN IF targ = base0 THEN [err |-> FALSE, path |-> Dot]
       ELSE IF baseSlashed # targSlashed THEN [err |-> TRUE, path |-> <<>>]
       ELSE IF k < Len(b) /\ b[k + 1] = DotDot THEN [err |-> TRUE, path |-> <<>>]
       ELSE IF k < Len(b)
            THEN [err |-> FALSE,
                  path |-> Join(Ups(Len(b) - k) \o SubSeq(t, k + 1, Len(t)))]
            ELSE [err |-> FALSE, path |-> Join(SubSeq(t, k + 1, Len(t)))]

(***************************************************************************)
(* SFTPHandler.isPathAllowed                                               *)
(***************************************************************************)
\* variant: containment decided by a string prefix of the cleaned path
isPathAllowed_StringPrefix(vdir, path) ==
    LET c == Clean(path)
        cleanPath == IF ~IsAbs(c) THEN <<"/">> \o c ELSE c
    IN HasPrefix(cleanPath, vdir)

isPathAllowed(vdir, path) ==
    LET c == Clean(path)
        cleanPath == IF ~IsAbs(c) THEN <<"/">> \o c ELSE c
        r == Rel(vdir, cleanPath)
    IN IF r.err THEN FALSE
       ELSE ~HasPrefix(r.path, DotDot)

(***************************************************************************)
(* Integers of the width of an offset                                      *)
(***************************************************************************)
RECURSIVE Pow2(_)
Pow2(n) == IF n = 0 THEN 1 ELSE 2 * Pow2(n - 1)

MaxInt == Pow2(IntBits - 1) - 1

MinInt == 0 - Pow2(IntBits - 1)

\* the value a signed IntBits-wide addition leaves
Wrap(x) == ((x - MinInt) % Pow2(IntBits)) + MinInt

(***************************************************************************)
(* Errors: the text of the error and the cause it wraps (%w), "" for none  *)
(***************************************************************************)
Err(msg, cause) == [msg |-> msg, cause |-> cause]

Nil == Err("", "")

ErrPermission == Err("permission denied", "")

ErrInvalid == Err("invalid argument", "")

ErrClosed == Err("file already closed", "")

ErrTooLarge == Err("file too large", "")

ErrEmptyCredentials == Err("credentials cannot be empty", "")

ErrInvalidCredentials == Err("invalid credentials", "")

ErrUnauthorizedAccount == Err("unauthorized account", "")

ErrUploadFailed(cause) == Err("upload failed", cause)

\* a run-time panic of the Go process (slice bounds out of range)
Panic == Err("panic", "slice bounds out of range")

(***************************************************************************)
(* Configuration and the inputs a client can send                          *)
(***************************************************************************)
\* Config.RequiredAccountID
RequiredAccountID == "acctA"

\* Config.VirtualDir of the gateway specification ("/u" stands for "/uploads")
DefaultVirtualDir == <<"/", "u">>

\* Config.S3BucketPrefix of the gateway specification: unset
DefaultBucketPrefix == <<>>

\* bucket prefixes the key derivation is checked with
BucketPrefixes == {<<>>, <<"p">>}

\* u.timeFunc().UTC().Format("2006-01-02") at the time of the upload
Today == <<"2", "0", "2", "6", "-", "1", "1", "-", "0", "3">>

\* A time.Time is an instant, counted in hours from 2026-11-03T00:00Z, and the
\* zone it is shown in, as an offset from UTC in hours.
Instants == [utcHour : {1, 25}, zone : {-2, 0, 2}]

\* variant: the time keeps its zone
UTC_Local(t) == t

\* Time.UTC: the same instant, shown in UTC
UTC(t) == [utcHour |-> t.utcHour, zone |-> 0]

\* the hour of the calendar day the time shows, and that day counted from
\* 2026-11-03
ClockHour(t) == (t.utcHour + t.zone) % 24

DayOf(t) == (t.utcHour + t.zone) \div 24

Digit(n) == CASE n = 0 -> "0" [] n = 1 -> "1" [] n = 2 -> "2" [] n = 3 -> "3"
              [] n = 4 -> "4" [] n = 5 -> "5" [] n = 6 -> "6" [] n = 7 -> "7"
              [] n = 8 -> "8" [] n = 9 -> "9"

\* Time.Format("2006-01-02"), for the days of November 2026 the instants reach
FormatDate(t) ==
    <<"2", "0", "2", "6", "-", "1", "1", "-">>
        \o <<Digit((3 + DayOf(t)) \div 10), Digit((3 + DayOf(t)) % 10)>>

\* Time.Format(time.RFC3339), to the hour
FormatRFC3339(t) ==
    FormatDate(t) \o <<"T", Digit(ClockHour(t) \div 10), Digit(ClockHour(t) % 10)>>
        \o (IF t.zone = 0 THEN <<"Z">>
            ELSE IF t.zone < 0 THEN <<"-", Digit(-t.zone)>> ELSE <<"+", Digit(t.zone)>>)

\* virtual roots the path guard is checked with
VirtualDirs == {<<"/", "u">>, <<"/", "u", "/", "a">>, <<"/">>}

Conns == 1..NumConns

\* address of the peer of connection c
ClientIP(c) == IF c = 1 THEN "ip1" ELSE IF c = 2 THEN "ip2" ELSE "ip3"

\* the access key id and secret the client of connection c owns
KeyOf(c) == IF c = 1 THEN "AK1" ELSE IF c = 2 THEN "AK2" ELSE "AK3"

SecretOf(c) == IF c = 1 THEN "sk1" ELSE IF c = 2 THEN "sk2" ELSE "sk3"

Accounts == {"acctA", "acctB"}

\* the AWS SDK was not called
NotCalled == [kind |-> "not_called", account |-> "", detail |-> ""]

\* what LoadDefaultConfig and sts GetCallerIdentity can answer
StsOutcomes ==
    {[kind |-> "config_error", account |-> "", detail |-> "load config: bad profile"],
     [kind |-> "sts_error", account |-> "", detail |-> "InvalidClientTokenId"],
     [kind |-> "sts_error", account |-> "", detail |-> "dial tcp: timeout"],
     [kind |-> "nil_account", account |-> "", detail |-> ""]}
    \cup {[kind |-> "account", account |-> a, detail |-> ""] : a \in Accounts}

\* request paths of the gateway specification
Paths ==
    {<<"/", "u", "/", "a">>, <<"/", "u", "/", "u">>, <<"/", "u", "/", ".", ".">>}

\* request paths of the commands that do not look at the path: one inside
\* and one outside the virtual directory
CommandPaths == {<<"/", "u", "/", "a">>, <<"/", "u", "/", ".", ".">>}

Methods == {"Remove", "Rename", "Mkdir", "Rmdir", "Setstat", "Symlink"}

Byte == {1, 2}

Chunks == SeqsUpTo(Byte, MaxChunk)

\* what UploadFile's calls can answer
S3Outcomes == {"ok", "config_error", "put_error"}

(***************************************************************************)
(* State                                                                   *)
(***************************************************************************)
VARIABLES
    virtualDir,     \* Config.VirtualDir
    conns,          \* per connection: where handleConnection is, ssh.Permissions, the session handler
    writers,        \* every FileWriter created, with its FileUpload
    activeUploads,  \* SFTPHandler.activeUploads: path -> writer
    s3puts,         \* the PutObject calls made, in order
    crashed,        \* the process died of a panic
    ret,            \* what the last handler returned
    guardPath,      \* path under test of the path-guard specification
    guardResult,    \* isPathAllowed's answer for it: "unset" before the call,
                    \* then "allowed" or "denied"
    bucketPrefix,   \* Config.S3BucketPrefix
    keyPath,        \* file path under test of the key specification
    s3key,          \* generateS3Key's result for it; empty before the call
    now,            \* what u.timeFunc() returns: the instant and the local zone
    leaked,         \* some log record written so far held the secret access key
    env,            \* the environment LoadConfig reads
    cfg,            \* what LoadConfig returned; unset before the call
    ctxDone,        \* the context of Run is cancelled (shutdown signal delivered)
    listener,       \* the listening socket: "open" or "closed"
    run,            \* where Run is
    acceptor,       \* where acceptConnections is, and the connection it holds
    wg,             \* the counter of SFTPServer.activeConns
    handlers,       \* per connection: where its handleConnection goroutine is
    tasks,          \* per connection: where its handleChannel goroutine is
    exited          \* main returned: the process is gone

keyVars == <<bucketPrefix, keyPath, s3key>>

cfgVars == <<env, cfg>>

lifeVars == <<ctxDone, listener, run, acceptor, wg, handlers, tasks, exited>>

srvVars == <<now, cfgVars, lifeVars>>

vars == <<virtualDir, conns, writers, activeUploads, s3puts, crashed, ret,
          guardPath, guardResult, keyVars, srvVars, leaked>>

\* *ssh.Permissions; nil is [nil |-> TRUE]
NilPermissions ==
    [nil |-> TRUE, aws_access_key_id |-> "", aws_secret_access_key |-> "",
     aws_account_id |-> "", client_ip |-> ""]

\* *SessionSFTPHandler; nil before handleSFTP ran
NilSession ==
    [nil |-> TRUE, clientIP |-> "", accessKeyID |-> "", secretAccessKey |-> "",
     accountID |-> ""]

\* a handler's return values: error, byte count, the value returned
\* beside it (0: nil, else the id of the *FileWriter),
\* permissions, the calls Authenticate made to the AWS SDK, and the log
\* records the handler wrote before it returned, in order
Ret(op, err, n, res) ==
    [op |-> op, err |-> err, n |-> n, res |-> res, perm |-> NilPermissions,
     cfgCalls |-> 0, stsCalls |-> 0, logs |-> <<>>]

\* the return values r of a handler that wrote these log records
Logged(r, records) == [r EXCEPT !.logs = records]

NoRet == Ret("", Nil, 0, 0)

(***************************************************************************)
(* Log records                                                             *)
(***************************************************************************)
\* A log record is the set of its attributes, each a pair of the attribute
\* key and the program variable whose value is written.
AuthLogCtx == {<<"remote_ip", "clientIP">>, <<"access_key_id", "accessKeyID">>}

\* variant: the password is logged with the attempt
AuthenticateLog_Password(accessKeyID, secretAccessKey, out) ==
    AuthLogCtx \cup {<<"password", "secretAccessKey">>}

\* the attributes of the records Authenticate writes in one attempt
AuthenticateLog(accessKeyID, secretAccessKey, out) ==
    IF accessKeyID = "" \/ secretAccessKey = "" THEN AuthLogCtx
    ELSE IF out.kind \in {"config_error", "sts_error"}
    THEN AuthLogCtx \cup {<<"error", "err">>}
    ELSE IF out.kind = "nil_account" THEN AuthLogCtx
    ELSE IF out.account # RequiredAccountID
    THEN AuthLogCtx \cup {<<"actual_account_id", "accountID">>,
                          <<"required_account_id", "requiredAccountID">>}
    ELSE AuthLogCtx \cup {<<"account_id", "accountID">>,
                          <<"user_id", "result.UserId">>,
                          <<"arn", "result.Arn">>}

\* the records of one attempt: "authentication attempt" on entry, then the
\* record of the outcome
AuthenticateRecords(accessKeyID, secretAccessKey, out) ==
    <<AuthLogCtx, AuthenticateLog(accessKeyID, secretAccessKey, out)>>

\* handleConnection after the handshake succeeded, and after it failed
HandshakeDoneLog ==
    {<<"remote_ip", "clientIP">>, <<"user", "sshConn.User">>,
     <<"client_version", "sshConn.ClientVersion">>}

HandshakeFailLog == {<<"remote_ip", "clientIP">>, <<"error", "err">>}

\* handleSFTP when the session starts, and when server.Serve returned
SessionStartLog ==
    {<<"remote_ip", "clientIP">>, <<"access_key_id", "accessKeyID">>,
     <<"account_id", "accountID">>}

SessionEndLog == {<<"remote_ip", "clientIP">>, <<"error", "err">>}

\* SessionSFTPHandler.Filewrite and Filecmd
FilewriteLog ==
    {<<"remote_ip", "h.clientIP">>, <<"access_key_id", "h.accessKeyID">>,
     <<"file_path", "r.Filepath">>}

FilecmdLog == FilewriteLog \cup {<<"method", "r.Method">>}

\* FileWriter.WriteAt
WriteAtLog ==
    {<<"remote_ip", "upload.clientIP">>, <<"access_key_id", "upload.accessKey">>,
     <<"file_path", "upload.path">>, <<"offset", "off">>, <<"length", "len(p)">>,
     <<"current_size", "len(upload.data)">>, <<"max_size", "config.MaxFileSize">>,
     <<"attempted_size", "endPos">>, <<"bytes_written", "len(p)">>}

\* FileWriter.Close and S3Uploader.UploadFile
CloseLog ==
    {<<"remote_ip", "upload.clientIP">>, <<"access_key_id", "upload.accessKey">>,
     <<"file_path", "upload.path">>, <<"final_size", "len(upload.data)">>,
     <<"error", "err">>}

UploadFileLog ==
    {<<"remote_ip", "clientIP">>, <<"access_key_id", "accessKeyID">>,
     <<"file_path", "filePath">>, <<"file_size", "len(data)">>,
     <<"bucket", "u.bucket">>, <<"s3_key", "key">>, <<"error", "err">>}

\* the program variables that hold the secret access key
SecretVars == {"secretAccessKey", "password", "upload.secretKey", "h.secretAccessKey"}

\* the group every record of FileWriter.WriteAt, of FileWriter.Close and of
\* S3Uploader.UploadFile carries
WriteAtLogCtx ==
    {<<"remote_ip", "upload.clientIP">>, <<"access_key_id", "upload.accessKey">>,
     <<"file_path", "upload.path">>, <<"offset", "off">>, <<"length", "len(p)">>,
     <<"current_size", "len(upload.data)">>}

CloseLogCtx ==
    {<<"remote_ip", "upload.clientIP">>, <<"access_key_id", "upload.accessKey">>,
     <<"file_path", "upload.path">>, <<"final_size", "len(upload.data)">>}

UploadFileLogCtx ==
    {<<"remote_ip", "clientIP">>, <<"access_key_id", "accessKeyID">>,
     <<"file_path", "filePath">>, <<"file_size", "len(data)">>,
     <<"bucket", "u.bucket">>}

\* the records WriteAt writes at the level main configures (Info): only the
\* rejection for size; a closed writer returns before any record and the
\* record of a write is at Debug level
WriteAtRecords(err) ==
    IF err = ErrTooLarge
    THEN <<WriteAtLogCtx \cup {<<"max_size", "config.MaxFileSize">>,
                               <<"attempted_size", "endPos">>}>>
    ELSE <<>>

\* the records of a Close that called UploadFile, for the answer of storage
CloseRecords(out) ==
    <<CloseLogCtx, UploadFileLogCtx>>
      \o (IF out = "config_error"
          THEN <<UploadFileLogCtx \cup {<<"error", "err">>}>>
          ELSE IF out = "put_error"
          THEN <<UploadFileLogCtx \cup {<<"s3_key", "key">>, <<"error", "err">>}>>
          ELSE <<UploadFileLogCtx \cup {<<"s3_key", "key">>}>>)
      \o (IF out = "ok" THEN <<CloseLogCtx>>
          ELSE <<CloseLogCtx \cup {<<"error", "err">>}>>)

\* the logger writes records with these attributes
Log(attrs) == leaked' = (leaked \/ \E a \in attrs : a[2] \in SecretVars)

\* the clock of the gateway specification: 2026-11-03T12:00Z, local zone UTC
DefaultNow == [utcHour |-> 12, zone |-> 0]

\* Config.MaxConnections as configured by MAX_CONNECTIONS: one less than the
\* connections the clients open
MaxConnections == NumConns - 1

\* before LoadConfig was called
NoEnv == [k \in {} |-> <<>>]

NoConfig == [called |-> FALSE]

\* Run, acceptConnections and the goroutines they start, before any of them
\* took a step
IdleLife ==
    /\ ctxDone = FALSE
    /\ listener = "open"
    /\ run = "blocked"
    /\ acceptor = [pc |-> "select", conn |-> 0]
    /\ wg = 0
    /\ handlers = [c \in Conns |-> "none"]
    /\ tasks = [c \in Conns |-> "none"]
    /\ exited = FALSE

Init ==
    /\ virtualDir = DefaultVirtualDir
    /\ conns = [c \in Conns |->
                 [st |-> "free", deadline |-> FALSE, perm |-> NilPermissions,
                  session |-> NilSession, verified |-> ""]]
    /\ writers = <<>>
    /\ activeUploads = [p \in {} |-> 0]
    /\ s3puts = <<>>
    /\ crashed = FALSE
    /\ ret = NoRet
    /\ guardPath = <<>>
    /\ guardResult = "unset"
    /\ bucketPrefix = DefaultBucketPrefix
    /\ keyPath = <<>>
    /\ s3key = <<>>
    /\ now = DefaultNow
    /\ leaked = FALSE
    /\ env = NoEnv
    /\ cfg = NoConfig
    /\ IdleLife

(***************************************************************************)
(* SFTPServer: connections                                                 *)
(***************************************************************************)
\* acceptConnections hands the connection to handleConnection, which sets the
\* establishment deadline and enters the handshake; connections are numbered
\* in the order the listener hands them out
Accept(c) ==
    /\ ~crashed
    /\ conns[c].st = "free"
    /\ \A d \in Conns : d < c => conns[d].st # "free"
    /\ conns' = [conns EXCEPT ![c].st = "handshake", ![c].deadline = TRUE]
    /\ UNCHANGED <<virtualDir, writers, activeUploads, s3puts, crashed, ret,
                   guardPath, guardResult, keyVars, srvVars>>
    /\ UNCHANGED leaked

\* variant: only the access key id is tested for emptiness
CredentialsEmpty_KeyOnly(accessKeyID, secretAccessKey) == accessKeyID = ""

\* Authenticate's test for empty credentials
CredentialsEmpty(accessKeyID, secretAccessKey) ==
    accessKeyID = "" \/ secretAccessKey = ""

\* variant: the error of the SDK is wrapped into the returned error
VerificationError_Wrapped(detail) == Err("invalid credentials", detail)

\* the error Authenticate returns when the SDK failed or named no account;
\* detail is the SDK's error, which is logged only
VerificationError(detail) == ErrInvalidCredentials

\* variant: every account STS names is accepted
AccountAuthorized_Any(accountID) == TRUE

\* Authenticate's comparison of the account STS named with the required one
AccountAuthorized(accountID) == accountID = RequiredAccountID

\* variant: the secret is left out of the permissions
GrantedPermissions_NoSecret(clientIP, accessKeyID, secretAccessKey, accountID) ==
    [nil |-> FALSE,
     aws_access_key_id |-> accessKeyID,
     aws_secret_access_key |-> "",
     aws_account_id |-> accountID,
     client_ip |-> clientIP]

\* the ssh.Permissions Authenticate returns on success
GrantedPermissions(clientIP, accessKeyID, secretAccessKey, accountID) ==
    [nil |-> FALSE,
     aws_access_key_id |-> accessKeyID,
     aws_secret_access_key |-> secretAccessKey,
     aws_account_id |-> accountID,
     client_ip |-> clientIP]

\* Authenticator.Authenticate: what it returns for a credential pair and the
\* answer of the AWS SDK
AuthenticateResult(clientIP, accessKeyID, secretAccessKey, out) ==
    LET r == Logged(Ret("Authenticate", Nil, 0, 0),
                    AuthenticateRecords(accessKeyID, secretAccessKey, out))
    IN IF CredentialsEmpty(accessKeyID, secretAccessKey)
       THEN [r EXCEPT !.err = ErrEmptyCredentials]
       ELSE IF out.kind = "config_error"
       THEN [r EXCEPT !.err = VerificationError(out.detail), !.cfgCalls = 1]
       ELSE IF out.kind = "sts_error"
       THEN [r EXCEPT !.err = VerificationError(out.detail),
                      !.cfgCalls = 1, !.stsCalls = 1]
       ELSE IF out.kind = "nil_account"
       THEN [r EXCEPT !.err = VerificationError(out.detail),
                      !.cfgCalls = 1, !.stsCalls = 1]
       ELSE IF ~AccountAuthorized(out.account)
       THEN [r EXCEPT !.err = ErrUnauthorizedAccount, !.cfgCalls = 1, !.stsCalls = 1]
       ELSE [r EXCEPT !.cfgCalls = 1, !.stsCalls = 1,
                      !.perm = GrantedPermissions(clientIP, accessKeyID,
                                                  secretAccessKey, out.account)]

\* the password callback of the handshake; the permissions it returns become
\* those of the connection. verified records the account id STS answered with
\* in the attempt that succeeded.
Authenticate(c, accessKeyID, secretAccessKey, out) ==
    /\ ~crashed
    /\ conns[c].st = "handshake"
    /\ conns[c].perm.nil
    /\ LET r == AuthenticateResult(ClientIP(c), accessKeyID, secretAccessKey, out)
       IN /\ ret' = r
          /\ conns' = IF r.err = Nil
                       THEN [conns EXCEPT ![c].perm = r.perm,
                                          ![c].verified = out.account]
                       ELSE conns
    /\ UNCHANGED <<virtualDir, writers, activeUploads, s3puts, crashed,
                   guardPath, guardResult, keyVars, srvVars>>
    /\ Log(AuthenticateLog(accessKeyID, secretAccessKey, out))

\* ssh.NewServerConn returned without error: the deadline is cleared
HandshakeDone(c) ==
    /\ ~crashed
    /\ conns[c].st = "handshake"
    /\ ~conns[c].perm.nil
    /\ conns' = [conns EXCEPT ![c].st = "open", ![c].deadline = FALSE]
    /\ UNCHANGED <<virtualDir, writers, activeUploads, s3puts, crashed, ret,
                   guardPath, guardResult, keyVars, srvVars>>
    /\ Log(HandshakeDoneLog)

\* variant: the deadline is cleared before the result of the handshake is
\* looked at
HandshakeFail_DeadlineCleared(c) ==
    /\ ~crashed
    /\ conns[c].st = "handshake"
    /\ conns' = [conns EXCEPT ![c].st = "closed", ![c].perm = NilPermissions,
                              ![c].deadline = FALSE]
    /\ UNCHANGED <<virtualDir, writers, activeUploads, s3puts, crashed, ret,
                   guardPath, guardResult, keyVars, srvVars>>
    /\ Log(HandshakeFailLog)

\* ssh.NewServerConn returned an error: handleConnection returns and closes,
\* the deadline still set; nothing of the connection outlives it
HandshakeFail(c) ==
    /\ ~crashed
    /\ conns[c].st = "handshake"
    /\ conns' = [conns EXCEPT ![c].st = "closed", ![c].perm = NilPermissions]
    /\ UNCHANGED <<virtualDir, writers, activeUploads, s3puts, crashed, ret,
                   guardPath, guardResult, keyVars, srvVars>>
    /\ Log(HandshakeFailLog)

\* handleChannel got the sftp subsystem request: handleSFTP builds the
\* session handler from the permissions of the connection
handleSFTP(c) ==
    /\ ~crashed
    /\ conns[c].st = "open"
    /\ conns' = IF conns[c].perm.nil
                 THEN conns
                 ELSE [conns EXCEPT ![c].session =
                          [nil |-> FALSE,
                           clientIP |-> ClientIP(c),
                           accessKeyID |-> conns[c].perm.aws_access_key_id,
                           secretAccessKey |-> conns[c].perm.aws_secret_access_key,
                           accountID |-> conns[c].perm.aws_account_id]]
    /\ UNCHANGED <<virtualDir, writers, activeUploads, s3puts, crashed, ret,
                   guardPath, guardResult, keyVars, srvVars>>
    /\ Log(SessionStartLog)

\* the requests a client sends on a session channel before its session
\* runs: a type and a payload, which for a subsystem is four bytes of length
\* (written "0", "0", "0" and the length) and the name
SftpPayload == <<"0", "0", "0", "4", "s", "f", "t", "p">>

ChannelRequests ==
    {[type |-> "subsystem", payload |-> SftpPayload],
     [type |-> "subsystem", payload |-> <<"0", "0", "0", "3", "s", "c", "p">>],
     [type |-> "subsystem", payload |-> <<"0", "0", "0">>],
     [type |-> "subsystem", payload |-> <<>>],
     [type |-> "shell", payload |-> <<>>]}

\* the switch of handleChannel on one request: req.Payload[4:] panics when
\* the payload is shorter than four bytes
handleChannelResult(req) ==
    IF req.type = "subsystem"
    THEN IF Len(req.payload) < 4 THEN "panic"
         ELSE IF SubSeq(req.payload, 5, Len(req.payload)) = <<"s", "f", "t", "p">>
         THEN "sftp"
         ELSE "refused"
    ELSE "refused"

\* handleChannel for one request of the channel of a connection: it answers
\* requests until the sftp subsystem is asked for and then runs handleSFTP; a
\* panic in its goroutine ends the process
handleChannel(c, req) ==
    /\ ~crashed
    /\ conns[c].st = "open"
    /\ conns[c].session.nil
    /\ IF handleChannelResult(req) = "sftp"
       THEN handleSFTP(c)
       ELSE /\ crashed' = (handleChannelResult(req) = "panic")
            /\ UNCHANGED <<virtualDir, conns, writers, activeUploads, s3puts, ret,
                           guardPath, guardResult, keyVars, srvVars, leaked>>

\* the client went away: the channel loop of handleConnection ends and the
\* connection, its permissions and its session handler are dropped
Disconnect(c) ==
    /\ ~crashed
    /\ conns[c].st = "open"
    /\ conns' = [conns EXCEPT ![c].st = "closed", ![c].perm = NilPermissions,
                              ![c].session = NilSession]
    /\ UNCHANGED <<virtualDir, writers, activeUploads, s3puts, crashed, ret,
                   guardPath, guardResult, keyVars, srvVars>>
    /\ Log(SessionEndLog)

\* a request reaches the handlers of a session only while its connection is served
Serving(c) == ~crashed /\ conns[c].st = "open" /\ ~conns[c].session.nil

(***************************************************************************)
(* SessionSFTPHandler: the command table                                   *)
(***************************************************************************)
\* sync.Map Store and Delete on activeUploads
Store(m, path, w) == [q \in DOMAIN m \cup {path} |-> IF q = path THEN w ELSE m[q]]

\* variant: the registry is replaced by an empty one
Delete_All(m, path) == [q \in {} |-> 0]

Delete(m, path) == [q \in DOMAIN m \ {path} |-> m[q]]

\* variant: the upload takes the address and credentials of the session of
\* connection 1, whichever session asked
NewWriter_FirstSession(c, path) ==
    [path |-> path, data |-> <<>>,
     clientIP |-> conns[1].session.clientIP,
     accessKey |-> conns[1].session.accessKeyID,
     secretKey |-> conns[1].session.secretAccessKey,
     closed |-> FALSE, mu |-> FALSE, conn |-> c, uploads |-> 0,
     fresh |-> \A w \in 1..Len(writers) :
                  writers[w].path = path => writers[w].closed]

\* the FileUpload and FileWriter Filewrite builds; mu is TRUE while a Close
\* holds upload.mu across the S3 call; conn records the connection that asked,
\* uploads counts the calls of UploadFile made for this writer, and fresh
\* records that every earlier writer on the path had been closed when this
\* one was built
NewWriter(c, path) ==
    [path |-> path, data |-> <<>>,
     clientIP |-> conns[c].session.clientIP,
     accessKey |-> conns[c].session.accessKeyID,
     secretKey |-> conns[c].session.secretAccessKey,
     closed |-> FALSE, mu |-> FALSE, conn |-> c, uploads |-> 0,
     fresh |-> \A w \in 1..Len(writers) :
                  writers[w].path = path => writers[w].closed]

\* variant: the upload is registered before the path is checked
Filewrite_StoreFirst(c, path) ==
    /\ Serving(c)
    /\ IF ~isPathAllowed(virtualDir, path)
       THEN /\ ret' = Logged(Ret("Filewrite", ErrPermission, 0, 0), <<FilewriteLog>>)
            /\ activeUploads' = Store(activeUploads, path, Len(writers) + 1)
            /\ UNCHANGED writers
       ELSE /\ Len(writers) < MaxWriters
            /\ writers' = Append(writers, NewWriter(c, path))
            /\ activeUploads' = Store(activeUploads, path, Len(writers) + 1)
            /\ ret' = Logged(Ret("Filewrite", Nil, 0, Len(writers) + 1),
                             <<FilewriteLog>>)
    /\ UNCHANGED <<virtualDir, conns, s3puts, crashed, guardPath, guardResult, keyVars, srvVars>>
    /\ Log(FilewriteLog)

\* SessionSFTPHandler.Filewrite
Filewrite(c, path) ==
    /\ Serving(c)
    /\ IF ~isPathAllowed(virtualDir, path)
       THEN /\ ret' = Logged(Ret("Filewrite", ErrPermission, 0, 0), <<FilewriteLog>>)
            /\ UNCHANGED <<writers, activeUploads>>
       ELSE /\ Len(writers) < MaxWriters
            /\ writers' = Append(writers, NewWriter(c, path))
            /\ activeUploads' = Store(activeUploads, path, Len(writers) + 1)
            /\ ret' = Logged(Ret("Filewrite", Nil, 0, Len(writers) + 1),
                             <<FilewriteLog>>)
    /\ UNCHANGED <<virtualDir, conns, s3puts, crashed, guardPath, guardResult, keyVars, srvVars>>
    /\ Log(FilewriteLog)

\* variant: Remove is let through
FilecmdResult_RemoveAllowed(method) ==
    IF method = "Remove" THEN Nil
    ELSE IF method = "Rename" THEN ErrPermission
    ELSE IF method = "Mkdir" THEN Nil
    ELSE IF method = "Rmdir" THEN ErrPermission
    ELSE IF method = "Setstat" THEN Nil
    ELSE ErrInvalid

\* variant: the Setstat case is missing and falls to the default
FilecmdResult_NoSetstat(method) ==
    IF method = "Remove" THEN ErrPermission
    ELSE IF method = "Rename" THEN ErrPermission
    ELSE IF method = "Mkdir" THEN Nil
    ELSE IF method = "Rmdir" THEN ErrPermission
    ELSE ErrInvalid

\* variant: Mkdir is refused like Rmdir
FilecmdResult_MkdirDenied(method) ==
    IF method = "Remove" THEN ErrPermission
    ELSE IF method = "Rename" THEN ErrPermission
    ELSE IF method = "Mkdir" THEN ErrPermission
    ELSE IF method = "Rmdir" THEN ErrPermission
    ELSE IF method = "Setstat" THEN Nil
    ELSE ErrInvalid

\* the switch of SessionSFTPHandler.Filecmd
FilecmdResult(method) ==
    IF method = "Remove" THEN ErrPermission
    ELSE IF method = "Rename" THEN ErrPermission
    ELSE IF method = "Mkdir" THEN Nil
    ELSE IF method = "Rmdir" THEN ErrPermission
    ELSE IF method = "Setstat" THEN Nil
    ELSE ErrInvalid

\* SessionSFTPHandler.Filecmd
Filecmd(c, method, path) ==
    /\ Serving(c)
    /\ ret' = Logged(Ret(method, FilecmdResult(method), 0, 0), <<FilecmdLog>>)
    /\ UNCHANGED <<virtualDir, conns, writers, activeUploads, s3puts, crashed,
                   guardPath, guardResult, keyVars, srvVars>>
    /\ Log(FilecmdLog)

\* SessionSFTPHandler.Fileread, by way of SFTPHandler.Fileread
Fileread(c, path) ==
    /\ Serving(c)
    /\ ret' = Ret("Fileread", ErrPermission, 0, 0)
    /\ UNCHANGED <<virtualDir, conns, writers, activeUploads, s3puts, crashed,
                   guardPath, guardResult, keyVars, srvVars>>
    /\ UNCHANGED leaked

\* SessionSFTPHandler.Fileinfo
Fileinfo(c, path) ==
    /\ Serving(c)
    /\ ret' = Ret("Fileinfo", ErrPermission, 0, 0)
    /\ UNCHANGED <<virtualDir, conns, writers, activeUploads, s3puts, crashed,
                   guardPath, guardResult, keyVars, srvVars>>
    /\ UNCHANGED leaked

\* SessionSFTPHandler.Filelist
Filelist(c, path) ==
    /\ Serving(c)
    /\ ret' = Ret("Filelist", ErrPermission, 0, 0)
    /\ UNCHANGED <<virtualDir, conns, writers, activeUploads, s3puts, crashed,
                   guardPath, guardResult, keyVars, srvVars>>
    /\ UNCHANGED leaked

(***************************************************************************)
(* S3Uploader: key derivation                                              *)
(***************************************************************************)
\* filepath.Base: trailing separators are dropped, then everything up to the
\* last separator; "." for the empty path and "/" for a path of separators
RECURSIVE StripSlashes(_)
StripSlashes(s) ==
    IF s # <<>> /\ Last(s) = "/" THEN StripSlashes(Front(s)) ELSE s

RECURSIVE AfterLastSlash(_)
AfterLastSlash(s) ==
    IF s = <<>> THEN <<>>
    ELSE IF Last(s) = "/" THEN <<>>
    ELSE AfterLastSlash(Front(s)) \o <<Last(s)>>

Base(path) ==
    IF path = <<>> THEN <<".">>
    ELSE LET elem == AfterLastSlash(StripSlashes(path))
         IN IF elem = <<>> THEN <<"/">> ELSE elem

\* strings.ReplaceAll for a non-empty old: non-overlapping, left to right
RECURSIVE ReplaceAll(_, _, _)
ReplaceAll(s, old, new) ==
    IF Len(s) < Len(old) THEN s
    ELSE IF SubSeq(s, 1, Len(old)) = old
    THEN new \o ReplaceAll(SubSeq(s, Len(old) + 1, Len(s)), old, new)
    ELSE <<s[1]>> \o ReplaceAll(Tail(s), old, new)

\* the placeholder file name
Unknown == <<"u", "n", "k", "n", "o", "w", "n">>

\* variant: a base name of "/" is kept
IsPlaceholderBase_NoSlash(filename) ==
    filename = <<>> \/ filename = <<".">>

\* generateS3Key's test for a base name that names no file
IsPlaceholderBase(filename) ==
    filename = <<>> \/ filename = <<".">> \/ filename = <<"/">>

\* variant: only spaces are replaced
Sanitize_SpacesOnly(filename) ==
    ReplaceAll(filename, <<" ">>, <<"_">>)

\* variant: two dots in a row are collapsed to one dot
Sanitize_DotForDots(filename) ==
    ReplaceAll(ReplaceAll(filename, <<" ">>, <<"_">>), <<".", ".">>, <<".">>)

\* the two replacements generateS3Key applies to the file name
Sanitize(filename) ==
    ReplaceAll(ReplaceAll(filename, <<" ">>, <<"_">>), <<".", ".">>, <<"_">>)

\* variant: the file name is taken from the whole path, directories included
generateS3Key_WholePath(prefix, timestamp, filePath) ==
    LET base == filePath
        filename == IF IsPlaceholderBase(base) THEN Unknown ELSE base
        sanitizedFilename == Sanitize(filename)
    IN IF prefix # <<>>
       THEN prefix \o <<"/">> \o timestamp \o <<"/">> \o sanitizedFilename
       ELSE timestamp \o <<"/">> \o sanitizedFilename

\* S3Uploader.generateS3Key
generateS3Key(prefix, timestamp, filePath) ==
    LET base == Base(filePath)
        filename == IF IsPlaceholderBase(base) THEN Unknown ELSE base
        sanitizedFilename == Sanitize(filename)
    IN IF prefix # <<>>
       THEN prefix \o <<"/">> \o timestamp \o <<"/">> \o sanitizedFilename
       ELSE timestamp \o <<"/">> \o sanitizedFilename

(***************************************************************************)
(* FileWriter                                                              *)
(***************************************************************************)
\* variant: the grown part of the buffer is not zeroed
Zeros_Ones(n) == [i \in 1..n |-> 1]

RECURSIVE Zeros(_)
Zeros(n) == IF n <= 0 THEN <<>> ELSE <<0>> \o Zeros(n - 1)

\* variant: the limit is compared one byte too late
ExceedsLimit_OffByOne(endPos) == endPos > MaxFileSize + 1

\* variant: no size test
ExceedsLimit_Never(endPos) == FALSE

\* WriteAt's size test
ExceedsLimit(endPos) == endPos > MaxFileSize

\* variant: the size test comes before the test of fw.closed
WriteAtResult_SizeFirst(fw, p, off) ==
    LET endPos == Wrap(off + Len(p))
        grown == IF Len(fw.data) < endPos
                 THEN fw.data \o Zeros(endPos - Len(fw.data))
                 ELSE fw.data
    IN IF ExceedsLimit(endPos)
       THEN [data |-> fw.data, n |-> 0, err |-> ErrTooLarge]
       ELSE IF fw.closed
       THEN [data |-> fw.data, n |-> 0, err |-> ErrClosed]
       ELSE IF off < 0 \/ off > Len(grown)
       THEN [data |-> grown, n |-> 0, err |-> Panic]
       ELSE [data |-> [i \in 1..Len(grown) |->
                         IF i > off /\ i <= off + Len(p) THEN p[i - off] ELSE grown[i]],
             n |-> Len(p), err |-> Nil]

\* variant: WriteAt does not look at fw.closed
WriteAtResult_NoClosedCheck(fw, p, off) ==
    LET endPos == Wrap(off + Len(p))
        grown == IF Len(fw.data) < endPos
                 THEN fw.data \o Zeros(endPos - Len(fw.data))
                 ELSE fw.data
    IN IF ExceedsLimit(endPos)
       THEN [data |-> fw.data, n |-> 0, err |-> ErrTooLarge]
       ELSE IF off < 0 \/ off > Len(grown)
       THEN [data |-> grown, n |-> 0, err |-> Panic]
       ELSE [data |-> [i \in 1..Len(grown) |->
                         IF i > off /\ i <= off + Len(p) THEN p[i - off] ELSE grown[i]],
             n |-> Len(p), err |-> Nil]

\* FileWriter.WriteAt under upload.mu: the buffer it leaves and what it returns
WriteAtResult(fw, p, off) ==
    LET endPos == Wrap(off + Len(p))
        grown == IF Len(fw.data) < endPos
                 THEN fw.data \o Zeros(endPos - Len(fw.data))
                 ELSE fw.data
    IN IF fw.closed
       THEN [data |-> fw.data, n |-> 0, err |-> ErrClosed]
       ELSE IF ExceedsLimit(endPos)
       THEN [data |-> fw.data, n |-> 0, err |-> ErrTooLarge]
       ELSE IF off < 0 \/ off > Len(grown)
       THEN [data |-> grown, n |-> 0, err |-> Panic]
       ELSE [data |-> [i \in 1..Len(grown) |->
                         IF i > off /\ i <= off + Len(p) THEN p[i - off] ELSE grown[i]],
             n |-> Len(p), err |-> Nil]

\* FileWriter.WriteAt, called for a write request of the session that holds
\* the writer; it waits while a Close holds the lock of the upload
WriteAt(w, p, off) ==
    /\ w \in 1..Len(writers)
    /\ Serving(writers[w].conn)
    /\ ~writers[w].mu
    /\ LET r == WriteAtResult(writers[w], p, off)
       IN /\ writers' = [writers EXCEPT ![w].data = r.data]
          /\ crashed' = (r.err = Panic)
          /\ ret' = Logged(Ret("WriteAt", r.err, r.n, 0), WriteAtRecords(r.err))
    /\ UNCHANGED <<virtualDir, conns, activeUploads, s3puts, guardPath, guardResult, keyVars, srvVars>>
    /\ Log(WriteAtLog)

\* variant: Close does not look at fw.closed
Close_NoClosedCheck(w) ==
    /\ ~crashed
    /\ w \in 1..Len(writers)
    /\ ~writers[w].mu
    /\ writers' = [writers EXCEPT ![w].closed = TRUE, ![w].mu = TRUE,
                                  ![w].uploads = IF @ < 2 THEN @ + 1 ELSE @]
    /\ UNCHANGED ret
    /\ UNCHANGED <<virtualDir, conns, activeUploads, s3puts, crashed,
                   guardPath, guardResult, keyVars, srvVars>>
    /\ Log(CloseLog \cup UploadFileLog)

\* FileWriter.Close up to and including the call of UploadFile, called for a
\* close request or by the request server when the session ends: takes the
\* lock; a closed writer returns nil at once, an open one is marked closed,
\* calls UploadFile and keeps the lock while the call is out
Close(w) ==
    /\ ~crashed
    /\ w \in 1..Len(writers)
    /\ ~writers[w].mu
    /\ IF writers[w].closed
       THEN /\ ret' = Ret("Close", Nil, 0, 0)
            /\ UNCHANGED writers
       ELSE /\ writers' = [writers EXCEPT ![w].closed = TRUE, ![w].mu = TRUE,
                                          ![w].uploads = @ + 1]
            /\ UNCHANGED ret
    /\ UNCHANGED <<virtualDir, conns, activeUploads, s3puts, crashed,
                   guardPath, guardResult, keyVars, srvVars>>
    /\ Log(CloseLog \cup UploadFileLog)

\* variant: the body sent lacks the last byte of the buffer
UploadFilePuts_Truncated(w, fw, out) ==
    IF out = "config_error" THEN <<>>
    ELSE <<[w |-> w,
            accessKeyID |-> fw.accessKey,
            secretAccessKey |-> fw.secretKey,
            key |-> generateS3Key(bucketPrefix, FormatDate(UTC(now)), fw.path),
            body |-> IF fw.data = <<>> THEN <<>> ELSE Front(fw.data),
            meta |-> [client_ip |-> fw.clientIP,
                      access_key_id |-> fw.accessKey,
                      upload_time |-> FormatRFC3339(UTC(now)),
                      original_path |-> fw.path]]>>

\* S3Uploader.UploadFile: the PutObject call it makes, none when the client
\* configuration failed
UploadFilePuts(w, fw, out) ==
    IF out = "config_error" THEN <<>>
    ELSE <<[w |-> w,
            accessKeyID |-> fw.accessKey,
            secretAccessKey |-> fw.secretKey,
            key |-> generateS3Key(bucketPrefix, FormatDate(UTC(now)), fw.path),
            body |-> fw.data,
            meta |-> [client_ip |-> fw.clientIP,
                      access_key_id |-> fw.accessKey,
                      upload_time |-> FormatRFC3339(UTC(now)),
                      original_path |-> fw.path]]>>

\* variant: a failed PutObject is not reported
CloseResult_Swallowed(out) ==
    IF out = "config_error"
    THEN ErrUploadFailed("failed to configure AWS client")
    ELSE Nil

\* the error Close returns for the answer of UploadFile
CloseResult(out) ==
    IF out = "ok" THEN Nil
    ELSE IF out = "config_error"
    THEN ErrUploadFailed("failed to configure AWS client")
    ELSE ErrUploadFailed("failed to upload to S3")

\* variant: a failed upload ends the session of the writer
CloseReturn_FailureEndsSession(w, out) ==
    /\ ~crashed
    /\ w \in 1..Len(writers)
    /\ writers[w].mu
    /\ s3puts' = s3puts \o UploadFilePuts(w, writers[w], out)
    /\ activeUploads' = Delete(activeUploads, writers[w].path)
    /\ writers' = [writers EXCEPT ![w].mu = FALSE]
    /\ ret' = Logged(Ret("Close", CloseResult(out), 0, 0), CloseRecords(out))
    /\ conns' = IF out = "ok" THEN conns
                 ELSE [conns EXCEPT ![writers[w].conn].st = "closed"]
    /\ UNCHANGED <<virtualDir, crashed, guardPath, guardResult, keyVars, srvVars>>
    /\ Log(CloseLog \cup UploadFileLog)

\* the rest of FileWriter.Close: UploadFile answers, the deferred Delete and
\* Unlock run, Close returns
CloseReturn(w, out) ==
    /\ ~crashed
    /\ w \in 1..Len(writers)
    /\ writers[w].mu
    /\ s3puts' = s3puts \o UploadFilePuts(w, writers[w], out)
    /\ activeUploads' = Delete(activeUploads, writers[w].path)
    /\ writers' = [writers EXCEPT ![w].mu = FALSE]
    /\ ret' = Logged(Ret("Close", CloseResult(out), 0, 0), CloseRecords(out))
    /\ UNCHANGED <<virtualDir, conns, crashed, guardPath, guardResult, keyVars, srvVars>>
    /\ Log(CloseLog \cup UploadFileLog)

(***************************************************************************)
(* The gateway                                                             *)
(***************************************************************************)
\* the byte slice the gateway specification writes through writer w (one byte
\* that tells the writers apart) and the offsets it writes at
GatewayChunk(w) == <<w>>

GatewayOffsets == {0, MaxFileSize, MaxInt}

\* the answers of the AWS SDK to choose from in one authentication attempt:
\* none when Authenticate returns before calling it
SdkAnswers(accessKeyID, secretAccessKey) ==
    IF accessKeyID = "" \/ secretAccessKey = "" THEN {NotCalled} ELSE StsOutcomes

Next ==
    \/ \E c \in Conns : Accept(c)
    \/ \E c \in Conns : \E k \in {"", KeyOf(c)}, s \in {"", SecretOf(c)} :
          \E out \in SdkAnswers(k, s) : Authenticate(c, k, s, out)
    \/ \E c \in Conns : HandshakeDone(c)
    \/ \E c \in Conns : HandshakeFail(c)
    \/ \E c \in Conns, req \in ChannelRequests : handleChannel(c, req)
    \/ \E c \in Conns : Disconnect(c)
    \/ \E c \in Conns, path \in Paths : Filewrite(c, path)
    \/ \E c \in Conns, m \in Methods, path \in CommandPaths : Filecmd(c, m, path)
    \/ \E c \in Conns, path \in CommandPaths : Fileread(c, path)
    \/ \E c \in Conns, path \in CommandPaths : Fileinfo(c, path)
    \/ \E c \in Conns, path \in CommandPaths : Filelist(c, path)
    \/ \E w \in 1..MaxWriters, off \in GatewayOffsets :
          WriteAt(w, GatewayChunk(w), off)
    \/ \E w \in 1..MaxWriters : Close(w)
    \/ \E w \in 1..MaxWriters, out \in S3Outcomes : CloseReturn(w, out)

Spec == Init /\ [][Next]_vars

(***************************************************************************)
(* The path guard on its own                                               *)
(***************************************************************************)
GuardPaths == SeqsUpTo(Chars, MaxPathLen)

InitPath ==
    /\ virtualDir \in VirtualDirs
    /\ guardPath \in GuardPaths
    /\ guardResult = "unset"
    /\ bucketPrefix = DefaultBucketPrefix
    /\ keyPath = <<>>
    /\ s3key = <<>>
    /\ conns = [c \in Conns |->
                 [st |-> "free", deadline |-> FALSE, perm |-> NilPermissions,
                  session |-> NilSession, verified |-> ""]]
    /\ writers = <<>>
    /\ activeUploads = [p \in {} |-> 0]
    /\ s3puts = <<>>
    /\ crashed = FALSE
    /\ ret = NoRet
    /\ now = DefaultNow
    /\ leaked = FALSE
    /\ env = NoEnv
    /\ cfg = NoConfig
    /\ IdleLife

\* one call of isPathAllowed
CheckPath ==
    /\ guardResult = "unset"
    /\ guardResult' = IF isPathAllowed(virtualDir, guardPath)
                      THEN "allowed" ELSE "denied"
    /\ UNCHANGED <<virtualDir, conns, writers, activeUploads, s3puts, crashed, ret,
                   guardPath, keyVars, srvVars>>
    /\ UNCHANGED leaked

NextPath == CheckPath

SpecPath == InitPath /\ [][NextPath]_vars

(***************************************************************************)
(* One writer on its own: every byte slice at every offset                 *)
(***************************************************************************)
WriterPath == <<"/", "u", "/", "a">>

\* the state after connection 1 authenticated, started its SFTP session and
\* opened WriterPath for writing
InitWriter ==
    /\ virtualDir = DefaultVirtualDir
    /\ conns = [c \in Conns |->
                 IF c = 1
                 THEN [st |-> "open", deadline |-> FALSE,
                       perm |-> [nil |-> FALSE,
                                 aws_access_key_id |-> KeyOf(1),
                                 aws_secret_access_key |-> SecretOf(1),
                                 aws_account_id |-> RequiredAccountID,
                                 client_ip |-> ClientIP(1)],
                       session |-> [nil |-> FALSE, clientIP |-> ClientIP(1),
                                    accessKeyID |-> KeyOf(1),
                                    secretAccessKey |-> SecretOf(1),
                                    accountID |-> RequiredAccountID],
                       verified |-> RequiredAccountID]
                 ELSE [st |-> "free", deadline |-> FALSE, perm |-> NilPermissions,
                       session |-> NilSession, verified |-> ""]]
    /\ writers = <<[path |-> WriterPath, data |-> <<>>, clientIP |-> ClientIP(1),
                    accessKey |-> KeyOf(1), secretKey |-> SecretOf(1),
                    closed |-> FALSE, mu |-> FALSE, conn |-> 1, uploads |-> 0,
                    fresh |-> TRUE]>>
    /\ activeUploads = [p \in {WriterPath} |-> 1]
    /\ s3puts = <<>>
    /\ crashed = FALSE
    /\ ret = Logged(Ret("Filewrite", Nil, 0, 1), <<FilewriteLog>>)
    /\ guardPath = <<>>
    /\ guardResult = "unset"
    /\ bucketPrefix = DefaultBucketPrefix
    /\ keyPath = <<>>
    /\ s3key = <<>>
    /\ now = DefaultNow
    /\ leaked = FALSE
    /\ env = NoEnv
    /\ cfg = NoConfig
    /\ IdleLife

\* every offset an int64 can hold, at the scaled-down width
Offsets == MinInt..MaxInt

NextWriter ==
    \/ \E p \in Chunks, off \in Offsets : WriteAt(1, p, off)
    \/ Close(1)
    \/ \E out \in S3Outcomes : CloseReturn(1, out)

SpecWriter == InitWriter /\ [][NextWriter]_vars

(***************************************************************************)
(* The key derivation on its own: every short file path                    *)
(***************************************************************************)
KeyChars == {"/", ".", " ", "a"}

KeyPaths == SeqsUpTo(KeyChars, MaxPathLen)

InitKey ==
    /\ bucketPrefix \in BucketPrefixes
    /\ keyPath \in KeyPaths
    /\ s3key = <<>>
    /\ virtualDir = DefaultVirtualDir
    /\ conns = [c \in Conns |->
                 [st |-> "free", deadline |-> FALSE, perm |-> NilPermissions,
                  session |-> NilSession, verified |-> ""]]
    /\ writers = <<>>
    /\ activeUploads = [p \in {} |-> 0]
    /\ s3puts = <<>>
    /\ crashed = FALSE
    /\ ret = NoRet
    /\ guardPath = <<>>
    /\ guardResult = "unset"
    /\ now \in Instants
    /\ leaked = FALSE
    /\ env = NoEnv
    /\ cfg = NoConfig
    /\ IdleLife

\* one call of generateS3Key
GenerateKey ==
    /\ s3key = <<>>
    /\ s3key' = generateS3Key(bucketPrefix, FormatDate(UTC(now)), keyPath)
    /\ UNCHANGED <<virtualDir, conns, writers, activeUploads, s3puts, crashed, ret,
                   guardPath, guardResult, bucketPrefix, keyPath, srvVars, leaked>>

NextKey == GenerateKey

SpecKey == InitKey /\ [][NextKey]_vars

(***************************************************************************)
(* LoadConfig                                                              *)
(***************************************************************************)
\* the value of a decimal digit, -1 for any other character
DigitValue(ch) ==
    CASE ch = "0" -> 0 [] ch = "1" -> 1 [] ch = "2" -> 2 [] ch = "3" -> 3
      [] ch = "4" -> 4 [] ch = "5" -> 5 [] ch = "6" -> 6 [] ch = "7" -> 7
      [] ch = "8" -> 8 [] ch = "9" -> 9 [] OTHER -> -1

IsDigits(s) == s # <<>> /\ \A i \in 1..Len(s) : DigitValue(s[i]) >= 0

RECURSIVE DigitsValue(_)
DigitsValue(s) ==
    IF s = <<>> THEN 0 ELSE 10 * DigitsValue(Front(s)) + DigitValue(Last(s))

\* strconv.Atoi and strconv.ParseInt(s, 10, 64) for a text too short to
\* overflow: an optional sign and at least one digit, or a syntax error
Atoi(s) ==
    LET signed == s # <<>> /\ s[1] \in {"+", "-"}
        digits == IF signed THEN Tail(s) ELSE s
    IN IF IsDigits(digits)
       THEN [ok |-> TRUE,
             val |-> IF signed /\ s[1] = "-" THEN -DigitsValue(digits)
                     ELSE DigitsValue(digits)]
       ELSE [ok |-> FALSE, val |-> 0]

\* the digits a text starts with
RECURSIVE LeadingDigits(_)
LeadingDigits(s) ==
    IF s = <<>> \/ DigitValue(s[1]) < 0 THEN <<>>
    ELSE <<s[1]>> \o LeadingDigits(Tail(s))

\* seconds in a unit of time.ParseDuration, 0 for an unknown unit
UnitSeconds(u) ==
    IF u = <<"s">> THEN 1 ELSE IF u = <<"m">> THEN 60
    ELSE IF u = <<"h">> THEN 3600 ELSE 0

\* time.ParseDuration for a text of one whole number and one unit of a second
\* or longer, in seconds: "0" is the zero duration, a number without a unit
\* and a text without a number are errors
ParseDuration(s) ==
    LET signed == s # <<>> /\ s[1] \in {"+", "-"}
        body == IF signed THEN Tail(s) ELSE s
        num == LeadingDigits(body)
        unit == SubSeq(body, Len(num) + 1, Len(body))
    IN IF body = <<"0">> THEN [ok |-> TRUE, val |-> 0]
       ELSE IF num = <<>> \/ UnitSeconds(unit) = 0 THEN [ok |-> FALSE, val |-> 0]
       ELSE [ok |-> TRUE,
             val |-> (IF signed /\ s[1] = "-" THEN -1 ELSE 1)
                       * DigitsValue(num) * UnitSeconds(unit)]

\* an optional number of the environment: the default when unset, the parsed
\* value, or the error that names the variable
OptionalValue(text, parsed, default, msg, cause) ==
    IF text = <<>> THEN [err |-> Nil, val |-> default]
    ELSE IF parsed.ok THEN [err |-> Nil, val |-> parsed.val]
    ELSE [err |-> Err(msg, cause), val |-> default]

\* variant: a required variable that is unset falls back to a built-in value
RequiredValue_Defaulted(text, msg) ==
    IF text # <<>> THEN [err |-> Nil, val |-> text]
    ELSE [err |-> Nil, val |-> <<"d">>]

\* a required variable of the environment
RequiredValue(text, msg) ==
    IF text # <<>> THEN [err |-> Nil, val |-> text]
    ELSE [err |-> Err(msg, ""), val |-> <<>>]

\* Config.VirtualDir: cleaned, and made absolute by a leading "/"
VirtualDirOf(vdir) ==
    LET cleaned == Clean(IF vdir # <<>> THEN vdir ELSE DefaultVirtualDir)
    IN IF IsAbs(cleaned) THEN cleaned ELSE <<"/">> \o cleaned

NilConfig == [nil |-> TRUE]

\* LoadConfig: the first failing step, in the order of the source, decides the
\* error; durations are in seconds
LoadConfig(e) ==
    LET port == OptionalValue(e.SFTP_PORT, Atoi(e.SFTP_PORT), 2222,
                              "invalid SFTP_PORT", "strconv.Atoi")
        size == OptionalValue(e.MAX_FILE_SIZE, Atoi(e.MAX_FILE_SIZE), 1024 * 1024,
                              "invalid MAX_FILE_SIZE", "strconv.ParseInt")
        bucket == RequiredValue(e.S3_BUCKET,
                                "S3_BUCKET environment variable is required")
        account == RequiredValue(e.AWS_ACCOUNT_ID,
                                 "AWS_ACCOUNT_ID environment variable is required")
        connT == OptionalValue(e.CONNECTION_TIMEOUT,
                               ParseDuration(e.CONNECTION_TIMEOUT), 30,
                               "invalid CONNECTION_TIMEOUT", "time.ParseDuration")
        readT == OptionalValue(e.READ_TIMEOUT, ParseDuration(e.READ_TIMEOUT), 30,
                               "invalid read_TIMEOUT", "time.ParseDuration")
        writeT == OptionalValue(e.WRITE_TIMEOUT, ParseDuration(e.WRITE_TIMEOUT), 30,
                                "invalid WRITE_TIMEOUT", "time.ParseDuration")
        maxConns == OptionalValue(e.MAX_CONNECTIONS, Atoi(e.MAX_CONNECTIONS), 100,
                                  "invalid MAX_CONNECTIONS", "strconv.Atoi")
        errs == <<port.err, size.err, bucket.err, account.err, connT.err,
                  readT.err, writeT.err, maxConns.err>>
        failed == {i \in 1..Len(errs) : errs[i] # Nil}
    IN IF failed # {}
       THEN [called |-> TRUE, config |-> NilConfig,
             err |-> errs[CHOOSE i \in failed : \A j \in failed : i <= j]]
       ELSE [called |-> TRUE,
             config |-> [nil |-> FALSE,
                         ServerPort |-> port.val,
                         VirtualDir |-> VirtualDirOf(e.VIRTUAL_DIR),
                         MaxFileSize |-> size.val,
                         S3Bucket |-> bucket.val,
                         S3BucketPrefix |-> e.S3_BUCKET_PREFIX,
                         S3Region |-> e.AWS_REGION,
                         RequiredAccountID |-> account.val,
                         ConnectionTimeout |-> connT.val,
                         ReadTimeout |-> readT.val,
                         WriteTimeout |-> writeT.val,
                         MaxConnections |-> maxConns.val],
             err |-> Nil]

\* the environments LoadConfig is checked with: per variable unset, a value
\* that parses and one that does not
IntTexts == {<<>>, <<"1">>, <<"x">>}

DurationTexts == {<<>>, <<"1", "s">>, <<"1">>}

RequiredTexts == {<<>>, <<"b">>}

Envs ==
    [SFTP_PORT : IntTexts, VIRTUAL_DIR : {<<>>, <<"v">>, <<".", ".", "/", "v">>},
     MAX_FILE_SIZE : IntTexts, S3_BUCKET : RequiredTexts,
     S3_BUCKET_PREFIX : {<<>>, <<"p">>}, AWS_REGION : {<<>>, <<"r">>},
     AWS_ACCOUNT_ID : RequiredTexts, CONNECTION_TIMEOUT : DurationTexts,
     READ_TIMEOUT : DurationTexts, WRITE_TIMEOUT : DurationTexts,
     MAX_CONNECTIONS : IntTexts]

InitConfig ==
    /\ env \in Envs
    /\ cfg = NoConfig
    /\ virtualDir = DefaultVirtualDir
    /\ conns = [c \in Conns |->
                 [st |-> "free", deadline |-> FALSE, perm |-> NilPermissions,
                  session |-> NilSession, verified |-> ""]]
    /\ writers = <<>>
    /\ activeUploads = [p \in {} |-> 0]
    /\ s3puts = <<>>
    /\ crashed = FALSE
    /\ ret = NoRet
    /\ guardPath = <<>>
    /\ guardResult = "unset"
    /\ bucketPrefix = DefaultBucketPrefix
    /\ keyPath = <<>>
    /\ s3key = <<>>
    /\ now = DefaultNow
    /\ leaked = FALSE
    /\ IdleLife

\* main calls LoadConfig once
CallLoadConfig ==
    /\ ~cfg.called
    /\ cfg' = LoadConfig(env)
    /\ UNCHANGED <<virtualDir, conns, writers, activeUploads, s3puts, crashed, ret,
                   guardPath, guardResult, keyVars, now, env, lifeVars, leaked>>

NextConfig == CallLoadConfig

SpecConfig == InitConfig /\ [][NextConfig]_vars

(***************************************************************************)
(* SFTPServer.Run and the goroutines it starts, statement by statement     *)
(***************************************************************************)
\* what the lifecycle of the server leaves alone
gateVars == <<virtualDir, conns, writers, activeUploads, s3puts, crashed, ret,
              guardPath, guardResult, keyVars, now, cfgVars, leaked>>

InitServer ==
    /\ virtualDir = DefaultVirtualDir
    /\ conns = [c \in Conns |->
                 [st |-> "free", deadline |-> FALSE, perm |-> NilPermissions,
                  session |-> NilSession, verified |-> ""]]
    /\ writers = <<>>
    /\ activeUploads = [p \in {} |-> 0]
    /\ s3puts = <<>>
    /\ crashed = FALSE
    /\ ret = NoRet
    /\ guardPath = <<>>
    /\ guardResult = "unset"
    /\ bucketPrefix = DefaultBucketPrefix
    /\ keyPath = <<>>
    /\ s3key = <<>>
    /\ now = DefaultNow
    /\ leaked = FALSE
    /\ env = NoEnv
    /\ cfg = NoConfig
    /\ IdleLife

\* handleSignals: a signal arrives and cancel() is called
handleSignals ==
    /\ ~exited
    /\ ~ctxDone
    /\ ctxDone' = TRUE
    /\ UNCHANGED <<listener, run, acceptor, wg, handlers, tasks, exited, gateVars>>

\* Run: <-ctx.Done() returns
RunWake ==
    /\ ~exited
    /\ run = "blocked"
    /\ ctxDone
    /\ run' = "closing"
    /\ UNCHANGED <<ctxDone, listener, acceptor, wg, handlers, tasks, exited, gateVars>>

\* Run: s.listener.Close()
RunCloseListener ==
    /\ ~exited
    /\ run = "closing"
    /\ listener' = "closed"
    /\ run' = "waiting"
    /\ UNCHANGED <<ctxDone, acceptor, wg, handlers, tasks, exited, gateVars>>

\* Run: s.activeConns.Wait() returns, which it does when the counter is zero,
\* and Run returns nil
RunWaitReturn ==
    /\ ~exited
    /\ run = "waiting"
    /\ wg = 0
    /\ run' = "returned"
    /\ UNCHANGED <<ctxDone, listener, acceptor, wg, handlers, tasks, exited, gateVars>>

\* main returns after Run returned: the process and all its goroutines end
MainReturn ==
    /\ ~exited
    /\ run = "returned"
    /\ exited' = TRUE
    /\ UNCHANGED <<ctxDone, listener, run, acceptor, wg, handlers, tasks, gateVars>>

\* acceptConnections: the select at the top of the loop
AcceptorSelect ==
    /\ ~exited
    /\ acceptor.pc = "select"
    /\ acceptor' = [acceptor EXCEPT !.pc = IF ctxDone THEN "stopped" ELSE "accept"]
    /\ UNCHANGED <<ctxDone, listener, run, wg, handlers, tasks, exited, gateVars>>

\* acceptConnections: s.listener.Accept() returns the next connection; the
\* call blocks on the listener only and does not look at the context
AcceptorAccept(c) ==
    /\ ~exited
    /\ acceptor.pc = "accept"
    /\ listener = "open"
    /\ handlers[c] = "none"
    /\ \A d \in Conns : d < c => handlers[d] # "none"
    /\ acceptor' = [pc |-> "add", conn |-> c]
    /\ UNCHANGED <<ctxDone, listener, run, wg, handlers, tasks, exited, gateVars>>

\* acceptConnections: s.listener.Accept() returns an error, as it does once
\* the listener is closed and may at any time; the loop ends when the
\* context is done and goes on otherwise
AcceptorAcceptError ==
    /\ ~exited
    /\ acceptor.pc = "accept"
    /\ acceptor' = [acceptor EXCEPT !.pc = IF ctxDone THEN "stopped" ELSE "select"]
    /\ UNCHANGED <<ctxDone, listener, run, wg, handlers, tasks, exited, gateVars>>

\* acceptConnections: s.activeConns.Add(1)
AcceptorAdd ==
    /\ ~exited
    /\ acceptor.pc = "add"
    /\ wg' = wg + 1
    /\ acceptor' = [acceptor EXCEPT !.pc = "go"]
    /\ UNCHANGED <<ctxDone, listener, run, handlers, tasks, exited, gateVars>>

\* acceptConnections: go s.handleConnection(ctx, conn)
AcceptorGo ==
    /\ ~exited
    /\ acceptor.pc = "go"
    /\ handlers' = [handlers EXCEPT ![acceptor.conn] = "handshake"]
    /\ acceptor' = [pc |-> "select", conn |-> 0]
    /\ UNCHANGED <<ctxDone, listener, run, wg, tasks, exited, gateVars>>

\* handleConnection: ssh.NewServerConn fails; the deferred Close and Done run
HandlerHandshakeFail(c) ==
    /\ ~exited
    /\ handlers[c] = "handshake"
    /\ handlers' = [handlers EXCEPT ![c] = "done"]
    /\ wg' = wg - 1
    /\ UNCHANGED <<ctxDone, listener, run, acceptor, tasks, exited, gateVars>>

\* handleConnection: ssh.NewServerConn succeeds and the channel loop starts
HandlerHandshakeDone(c) ==
    /\ ~exited
    /\ handlers[c] = "handshake"
    /\ handlers' = [handlers EXCEPT ![c] = "serving"]
    /\ UNCHANGED <<ctxDone, listener, run, acceptor, wg, tasks, exited, gateVars>>

\* handleConnection: a session channel is accepted and
\* go s.handleChannel(...) starts its task, which the WaitGroup does not count
HandlerChannel(c) ==
    /\ ~exited
    /\ handlers[c] = "serving"
    /\ tasks[c] = "none"
    /\ tasks' = [tasks EXCEPT ![c] = "requests"]
    /\ UNCHANGED <<ctxDone, listener, run, acceptor, wg, handlers, exited, gateVars>>

\* handleConnection: the client went away, the channel loop ends and the
\* deferred Close and Done run
HandlerReturn(c) ==
    /\ ~exited
    /\ handlers[c] = "serving"
    /\ handlers' = [handlers EXCEPT ![c] = "done"]
    /\ wg' = wg - 1
    /\ UNCHANGED <<ctxDone, listener, run, acceptor, tasks, exited, gateVars>>

\* handleChannel: the sftp subsystem request; handleSFTP serves the session
TaskServe(c) ==
    /\ ~exited
    /\ tasks[c] = "requests"
    /\ tasks' = [tasks EXCEPT ![c] = "sftp"]
    /\ UNCHANGED <<ctxDone, listener, run, acceptor, wg, handlers, exited, gateVars>>

\* a FileWriter.Close of the session, for a close request or because the
\* session ends, calls UploadFile
TaskHandoffStart(c) ==
    /\ ~exited
    /\ tasks[c] = "sftp"
    /\ tasks' = [tasks EXCEPT ![c] = "handoff"]
    /\ UNCHANGED <<ctxDone, listener, run, acceptor, wg, handlers, exited, gateVars>>

\* UploadFile returns
TaskHandoffEnd(c) ==
    /\ ~exited
    /\ tasks[c] = "handoff"
    /\ tasks' = [tasks EXCEPT ![c] = "sftp"]
    /\ UNCHANGED <<ctxDone, listener, run, acceptor, wg, handlers, exited, gateVars>>

\* handleChannel returns: the requests ended or server.Serve returned
TaskReturn(c) ==
    /\ ~exited
    /\ tasks[c] \in {"requests", "sftp"}
    /\ tasks' = [tasks EXCEPT ![c] = "done"]
    /\ UNCHANGED <<ctxDone, listener, run, acceptor, wg, handlers, exited, gateVars>>

NextServer ==
    \/ handleSignals
    \/ RunWake
    \/ RunCloseListener
    \/ RunWaitReturn
    \/ MainReturn
    \/ AcceptorSelect
    \/ AcceptorAcceptError
    \/ AcceptorAdd
    \/ AcceptorGo
    \/ \E c \in Conns : AcceptorAccept(c)
    \/ \E c \in Conns : HandlerHandshakeFail(c)
    \/ \E c \in Conns : HandlerHandshakeDone(c)
    \/ \E c \in Conns : HandlerChannel(c)
    \/ \E c \in Conns : HandlerReturn(c)
    \/ \E c \in Conns : TaskServe(c)
    \/ \E c \in Conns : TaskHandoffStart(c)
    \/ \E c \in Conns : TaskHandoffEnd(c)
    \/ \E c \in Conns : TaskReturn(c)

SpecServer == InitServer /\ [][NextServer]_vars

(***************************************************************************)
(* Properties                                                              *)
(***************************************************************************)
\* the connection writer w was opened on
ConnOf(w) == writers[w].conn

\* the credential pairs and SDK answers of one authentication attempt on c
Keys(c) == {"", KeyOf(c)}

Secrets(c) == {"", SecretOf(c)}

\* what every step of Filewrite leaves as it was: the connections and the
\* writers built before
FilewriteFrame ==
    /\ conns' = conns
    /\ \A w \in 1..Len(writers) : writers'[w] = writers[w]

\* C1: a storage write, an UploadState and an SFTP session exist only on a
\* connection on which Authenticate succeeded, and Authenticate succeeds only
\* when the account id STS returned equals the required one; a connection
\* whose authentication failed has no session, no upload and no storage write.
C1_StorageOnlyAfterAuth ==
    /\ \A c \in Conns :
          /\ conns[c].verified # "" => conns[c].verified = RequiredAccountID
          /\ (~conns[c].perm.nil \/ ~conns[c].session.nil)
                => conns[c].verified = RequiredAccountID
    /\ \A w \in 1..Len(writers) : conns[ConnOf(w)].verified = RequiredAccountID
    /\ \A i \in 1..Len(s3puts) :
          conns[ConnOf(s3puts[i].w)].verified = RequiredAccountID

\* one connection was refused, another one authenticated and stored a file
C1_Witness ==
    \E c, d \in Conns :
        /\ conns[c].st = "closed" /\ conns[c].verified = ""
        /\ \E i \in 1..Len(s3puts) : ConnOf(s3puts[i].w) = d

\* C2: Authenticate with an empty identifier or an empty secret returns the
\* empty-credentials error, grants nothing and makes no call to the AWS SDK.
C2_EmptyCredentialsNoCall ==
    [][ret'.op = "Authenticate" =>
       \A c \in Conns : \A k \in Keys(c), s \in Secrets(c) :
         \A out \in SdkAnswers(k, s) :
           ((k = "" \/ s = "") /\ Authenticate(c, k, s, out))
             => /\ ret'.err = ErrEmptyCredentials
                /\ ret'.cfgCalls = 0 /\ ret'.stsCalls = 0
                /\ ret'.perm.nil
                /\ conns' = conns]_vars

\* an attempt with empty credentials was refused
C2_Witness ==
    /\ ret.op = "Authenticate"
    /\ ret.err = ErrEmptyCredentials
    /\ \E c \in Conns : conns[c].st = "handshake"

\* C3: with non-empty credentials, a configuration error, an STS error and an
\* answer without account id all give the same "invalid credentials" error,
\* which carries nothing of the SDK's error; the SDK is entered once and STS
\* is called at most once (once unless the configuration failed) per attempt.
C3_DelegateFailureGeneric ==
    [][ret'.op = "Authenticate" =>
       \A c \in Conns : \A k \in Keys(c), s \in Secrets(c) :
         \A out \in SdkAnswers(k, s) :
           (k # "" /\ s # "" /\ Authenticate(c, k, s, out))
             => /\ ret'.cfgCalls = 1
                /\ ret'.stsCalls = (IF out.kind = "config_error" THEN 0 ELSE 1)
                /\ out.kind \in {"config_error", "sts_error", "nil_account"}
                     => /\ ret'.err = Err("invalid credentials", "")
                        /\ ret'.err.msg # out.detail
                        /\ ret'.perm.nil
                        /\ conns' = conns]_vars

\* an attempt failed in STS
C3_Witness ==
    /\ ret.op = "Authenticate"
    /\ ret.err = ErrInvalidCredentials
    /\ ret.stsCalls = 1

\* C4: when STS names account T, Authenticate succeeds iff T equals the
\* required account id, every other T gives the unauthorized-account error;
\* the permissions of a success bind exactly the presented access key id, the
\* presented secret, T and the client address.
C4_TenantGate ==
    [][ret'.op = "Authenticate" =>
       \A c \in Conns : \A k \in Keys(c), s \in Secrets(c) :
         \A out \in SdkAnswers(k, s) :
           (k # "" /\ s # "" /\ out.kind = "account"
              /\ Authenticate(c, k, s, out))
             => /\ (ret'.err = Nil) <=> (out.account = RequiredAccountID)
                /\ out.account # RequiredAccountID
                     => /\ ret'.err = ErrUnauthorizedAccount
                        /\ ret'.perm.nil
                        /\ conns' = conns
                /\ out.account = RequiredAccountID
                     => /\ ret'.perm = [nil |-> FALSE,
                                        aws_access_key_id |-> k,
                                        aws_secret_access_key |-> s,
                                        aws_account_id |-> out.account,
                                        client_ip |-> ClientIP(c)]
                        /\ conns'[c].perm = ret'.perm]_vars

\* an attempt succeeded and its permissions are those of the connection
C4_Witness ==
    /\ ret.op = "Authenticate"
    /\ ret.err = Nil
    /\ \E c \in Conns : ~conns[c].perm.nil /\ conns[c].perm = ret.perm

\* the canonical form of a path as a list of names: empty and "." segments
\* dropped, ".." removing the name before it (none at the root)
RECURSIVE Resolve(_, _)
Resolve(segs, out) ==
    IF segs = <<>> THEN out
    ELSE IF Head(segs) = <<>> \/ Head(segs) = Dot THEN Resolve(Tail(segs), out)
    ELSE IF Head(segs) = DotDot
         THEN Resolve(Tail(segs), IF out = <<>> THEN out ELSE Front(out))
         ELSE Resolve(Tail(segs), Append(out, Head(segs)))

Canonical(path) == Resolve(Split(path), <<>>)

\* the canonical form of path is the virtual root or lies below it
Inside(vdir, path) ==
    LET r == Canonical(vdir)
        t == Canonical(path)
    IN Len(t) >= Len(r) /\ SubSeq(t, 1, Len(r)) = r

\* C5: isPathAllowed is false for every path whose canonical form lies
\* outside the virtual root.
C5_OutsideDenied ==
    (guardResult # "unset" /\ ~Inside(virtualDir, guardPath))
        => guardResult = "denied"

\* a sibling whose name starts with the name of the root was denied
C5_Witness ==
    /\ guardResult = "denied"
    /\ virtualDir = <<"/", "u">>
    /\ guardPath = <<"/", "u", "a", "/", "a">>

\* C6: isPathAllowed is true for every path whose canonical form is the
\* virtual root or lies below it, whatever the names of its segments.
C6_InsideAllowed ==
    (guardResult # "unset" /\ Inside(virtualDir, guardPath))
        => guardResult = "allowed"

C8_NonWriteCommands ==
    [][/\ (/\ ret'.op \in Methods
           /\ \E c \in Conns, path \in Paths : Filecmd(c, ret'.op, path))
            => /\ ret'.op \in {"Remove", "Rename", "Rmdir"}
                    => ret'.err = ErrPermission
               /\ ret'.op \notin {"Remove", "Rename", "Rmdir", "Mkdir", "Setstat"}
                    => ret'.err = ErrInvalid
               /\ UNCHANGED <<activeUploads, writers, s3puts>>
       /\ (/\ ret'.op \in {"Fileread", "Fileinfo", "Filelist"}
           /\ \E c \in Conns, path \in Paths :
                 Fileread(c, path) \/ Fileinfo(c, path) \/ Filelist(c, path))
            => /\ ret'.err = ErrPermission
               /\ ret'.res = 0
               /\ UNCHANGED <<activeUploads, writers, s3puts>>]_vars

\* a Remove was refused while an upload is registered
C8_Witness ==
    /\ ret.op = "Remove"
    /\ ret.err = ErrPermission
    /\ DOMAIN activeUploads # {}

\* C9: Mkdir and Setstat return success for every path, inside or outside
\* the virtual root, and change neither the registry nor the uploads nor the
\* storage.
C9_MkdirSetstatNoop ==
    [][(/\ ret'.op \in {"Mkdir", "Setstat"}
        /\ \E c \in Conns, path \in Paths : Filecmd(c, ret'.op, path))
          => /\ ret'.err = Nil
             /\ UNCHANGED <<activeUploads, writers, s3puts>>]_vars

\* a Setstat succeeded while an upload is registered
C9_Witness ==
    /\ ret.op = "Setstat"
    /\ ret.err = Nil
    /\ DOMAIN activeUploads # {}

\* C10: WriteAt on an open writer whose end position (offset + len(bytes) as
\* the 64-bit sum WriteAt computes) is above the maximum file size returns the
\* size error and 0, leaves the buffer and the open state as they were, and
\* every later WriteAt that ends within the maximum succeeds.
C10_OversizeRejected ==
    [][/\ \A p \in Chunks, off \in Offsets :
            (~writers[1].closed /\ Wrap(off + Len(p)) > MaxFileSize
               /\ ret'.op = "WriteAt" /\ WriteAt(1, p, off))
              => /\ ret'.err = ErrTooLarge
                 /\ ret'.n = 0
                 /\ writers'[1] = writers[1]
                 /\ ~crashed'
       /\ (ret'.op = "WriteAt" /\ ret'.err = ErrTooLarge
             /\ ~writers[1].closed /\ writers' = writers)
            => \A q \in Chunks, o \in 0..MaxFileSize :
                 o + Len(q) <= MaxFileSize
                   => /\ WriteAtResult(writers'[1], q, o).err = Nil
                      /\ WriteAtResult(writers'[1], q, o).n = Len(q)]_vars

\* an oversize WriteAt was refused on a writer that holds data and is open
C10_Witness ==
    /\ ret.op = "WriteAt"
    /\ ret.err = ErrTooLarge
    /\ writers[1].data # <<>>
    /\ ~writers[1].closed

\* the larger of two integers
Max2(a, b) == IF a >= b THEN a ELSE b

\* C11: every successful WriteAt returns len(bytes) and leaves a buffer whose
\* length is the larger of the old length and offset + len(bytes), holding
\* the written bytes where the write covers it, the old bytes elsewhere and
\* zero where nothing was written; from the empty buffer a writer starts
\* with, the buffer after any sequence of writes is therefore as long as the
\* largest end written and holds at each position the latest write over it.
C11_WritesCompose ==
    [][\A p \in Chunks, off \in Offsets :
         (ret'.op = "WriteAt" /\ ret'.err = Nil /\ WriteAt(1, p, off))
           => LET old == writers[1].data
                  new == writers'[1].data
              IN /\ ret'.n = Len(p)
                 /\ Len(new) = Max2(Len(old), off + Len(p))
                 /\ \A i \in 1..Len(new) :
                       new[i] = IF off < i /\ i <= off + Len(p) THEN p[i - off]
                                ELSE IF i <= Len(old) THEN old[i]
                                ELSE 0]_vars

\* a write past the end left a zero before the byte it wrote
C11_Witness ==
    /\ ret.op = "WriteAt"
    /\ ret.err = Nil
    /\ ret.n = 1
    /\ writers[1].data = <<0, 1>>

\* C12: no upload buffer is ever longer than the maximum file size, and no
\* PutObject call carries a body longer than that.
C12_BufferWithinLimit ==
    /\ \A w \in 1..Len(writers) : Len(writers[w].data) <= MaxFileSize
    /\ \A i \in 1..Len(s3puts) : Len(s3puts[i].body) <= MaxFileSize

\* a buffer filled to the maximum was handed to storage
C12_Witness ==
    \E i \in 1..Len(s3puts) : Len(s3puts[i].body) = MaxFileSize

\* C13: WriteAt on a closed writer returns the closed error and 0 and leaves
\* the buffer as it was, for every offset and every byte slice.
C13_ClosedWriterRejects ==
    [][\A p \in Chunks, off \in Offsets :
         (writers[1].closed /\ ret'.op = "WriteAt" /\ WriteAt(1, p, off))
           => /\ ret'.err = ErrClosed
              /\ ret'.n = 0
              /\ writers' = writers
              /\ ~crashed']_vars

\* a write was refused on a closed writer that holds data
C13_Witness ==
    /\ ret.op = "WriteAt"
    /\ ret.err = ErrClosed
    /\ writers[1].closed
    /\ writers[1].data # <<>>

\* the PutObject calls made for writer w
PutsOf(w) == {i \in 1..Len(s3puts) : s3puts[i].w = w}

\* C14: a Close of a writer that is already closed returns nil and changes
\* neither the writers (buffers included), the registry nor the storage
\* calls; whatever the first Close's upload answered, and with a second Close
\* that was issued while the first still held the lock, no writer ever makes
\* a second call of UploadFile or a second PutObject.
C14_CloseIdempotent ==
    [][/\ \A w \in 1..Len(writers) :
            (writers[w].closed /\ ret'.op = "Close" /\ Close(w))
              => /\ ret'.err = Nil
                 /\ UNCHANGED <<writers, activeUploads, s3puts>>
       /\ \A w \in 1..Len(writers') :
            /\ writers'[w].uploads <= 1
            /\ Cardinality({i \in 1..Len(s3puts') : s3puts'[i].w = w}) <= 1]_vars

\* a second Close returned nil after a first Close whose upload never
\* reached PutObject
C14_Witness ==
    /\ ret = Ret("Close", Nil, 0, 0)
    /\ Len(writers) = 1
    /\ writers[1].closed /\ ~writers[1].mu
    /\ s3puts = <<>>

\* C15: a writer has called UploadFile exactly once if its Close has begun
\* and never before; every PutObject belongs to a closed writer, is the only
\* one of that writer and carries exactly the buffer of that writer.
C15_OneUploadPerWriter ==
    /\ \A w \in 1..Len(writers) :
         /\ writers[w].uploads = IF writers[w].closed THEN 1 ELSE 0
         /\ Cardinality(PutsOf(w)) <= 1
    /\ \A i \in 1..Len(s3puts) :
         /\ s3puts[i].w \in 1..Len(writers)
         /\ writers[s3puts[i].w].closed
         /\ s3puts[i].body = writers[s3puts[i].w].data

\* a writer that was written to and closed made one PutObject of its bytes
C15_Witness ==
    /\ Len(s3puts) = 1
    /\ s3puts[1].body = <<1>>
    /\ writers[1].closed /\ ~writers[1].mu
    /\ writers[1].uploads = 1

\* C16: no two writers that are both open (created and not closed) hold the
\* same path: a Filewrite on a path with an open upload makes no second one.
C16_OneOpenPerPath ==
    \A w1, w2 \in 1..Len(writers) :
        (w1 # w2 /\ ~writers[w1].closed /\ ~writers[w2].closed)
            => writers[w1].path # writers[w2].path

\* no writer was built on the path of writer w after w
LatestOnPath(w) ==
    \A v \in 1..Len(writers) : v > w => writers[v].path # writers[w].path

\* C17: while a Close is handing its buffer to UploadFile the registry no
\* longer holds that writer's entry, and a writer built on a path after every
\* earlier Close on that path had begun (and not followed by another writer
\* on the path) keeps a registry entry for its path for as long as it is open.
C17_RemoveThenHandoff ==
    \A w \in 1..Len(writers) :
        /\ writers[w].mu
              => ~(/\ writers[w].path \in DOMAIN activeUploads
                   /\ activeUploads[writers[w].path] = w)
        /\ (writers[w].fresh /\ ~writers[w].closed /\ LatestOnPath(w))
              => writers[w].path \in DOMAIN activeUploads

\* the second half of C17 on its own: a writer built after the Close of its
\* predecessors began stays registered while it is open
C17_FreshStaysRegistered ==
    \A w \in 1..Len(writers) :
        (writers[w].fresh /\ ~writers[w].closed /\ LatestOnPath(w))
            => writers[w].path \in DOMAIN activeUploads

\* C18: when UploadFile fails (client configuration or PutObject), the Close
\* that called it returns "upload failed" wrapping the cause; the writer is
\* closed, has called UploadFile once, its path has no registry entry, and
\* no second PutObject was made.
C18_FailedUploadDiscarded ==
    [][\A w \in 1..Len(writers), out \in {"config_error", "put_error"} :
         (ret'.op = "Close" /\ CloseReturn(w, out))
           => /\ ret'.err.msg = "upload failed"
              /\ ret'.err.cause \in {"failed to configure AWS client",
                                      "failed to upload to S3"}
              /\ writers'[w].closed
              /\ writers'[w].uploads = 1
              /\ writers'[w].path \notin DOMAIN activeUploads'
              /\ Len(s3puts') <= Len(s3puts) + 1
              /\ Cardinality({i \in 1..Len(s3puts') : s3puts'[i].w = w}) <= 1]_vars

\* a Close whose upload failed returned the wrapped error and left a closed
\* writer with no registry entry
C18_Witness ==
    /\ ret.op = "Close"
    /\ ret.err = ErrUploadFailed("failed to upload to S3")
    /\ Len(writers) = 1
    /\ writers[1].closed /\ ~writers[1].mu
    /\ DOMAIN activeUploads = {}

\* the file name segment of a key: what follows its last separator
KeyFilename(key) == AfterLastSlash(key)

\* s holds the sequence sub somewhere
Contains(s, sub) ==
    \E i \in 1..(Len(s) - Len(sub) + 1) : SubSeq(s, i, i + Len(sub) - 1) = sub

\* C19: the file name segment of every key generateS3Key produces holds no
\* space and no two consecutive dots.
C19_KeyNameSanitized ==
    s3key # <<>>
        => /\ ~Contains(KeyFilename(s3key), <<" ">>)
           /\ ~Contains(KeyFilename(s3key), <<".", ".">>)

\* the key of a path whose base name has dots in a row and a space
C19_Witness ==
    /\ s3key # <<>>
    /\ keyPath = <<"/", ".", ".", ".", " ", "a">>
    /\ KeyFilename(s3key) = <<"_", ".", "_", "a">>

\* C20: the file name of the key is the placeholder exactly when the base
\* name of the path is empty, "." or "/", as for the paths "", ".", "/" and
\* "/a/."; for every other path it is the sanitized base name, as "a" for
\* "/a/", "_" for "/a/.." and "_." for "/a/...".
C20_PlaceholderName ==
    s3key # <<>>
        => LET name == KeyFilename(s3key)
               base == Base(keyPath)
               empty == base \in {<<>>, <<".">>, <<"/">>}
           IN /\ empty => name = Unknown
              /\ ~empty => name = Sanitize(base)
              /\ keyPath \in {<<>>, <<".">>, <<"/">>, <<"/", "a", "/", ".">>}
                    => name = Unknown
              /\ keyPath = <<"/", "a", "/">> => name = <<"a">>
              /\ keyPath = <<"/", "a", "/", ".", ".">> => name = <<"_">>
              /\ keyPath = <<"/", "a", "/", ".", ".", ".">> => name = <<"_", ".">>

\* the key of the path "/" carries the placeholder
C20_Witness ==
    /\ keyPath = <<"/">>
    /\ KeyFilename(s3key) = Unknown

\* the UTC calendar date of the instant of now, written out
UtcDateOfNow ==
    IF now.utcHour < 24 THEN Today
    ELSE <<"2", "0", "2", "6", "-", "1", "1", "-", "0", "4">>

\* the segments of a key ahead of its file name
KeyHead ==
    IF bucketPrefix # <<>> THEN bucketPrefix \o <<"/">> \o UtcDateOfNow \o <<"/">>
    ELSE UtcDateOfNow \o <<"/">>

\* C21 as stated: the key is the prefix, if one is configured, the current
\* UTC date and the sanitized base name of the path, joined by "/", so every
\* key ends with the sanitized base name.
C21_KeyEndsWithBaseName ==
    s3key # <<>> => s3key = KeyHead \o Sanitize(Base(keyPath))

\* C21: the key is the prefix, if one is configured, the current UTC date and
\* the file name, joined by "/"; the file name is the sanitized base name of
\* the path, or the placeholder when the base name is ".", "/" or empty.
C21_KeyForm ==
    s3key # <<>>
        => s3key = KeyHead \o (IF Base(keyPath) \in {<<>>, <<".">>, <<"/">>}
                               THEN Unknown ELSE Sanitize(Base(keyPath)))

\* a key made with a prefix at an instant that is still the previous day in
\* the local zone
C21_Witness ==
    /\ now = [utcHour |-> 1, zone |-> -2]
    /\ bucketPrefix = <<"p">>
    /\ keyPath = <<"/", "a", " ", "a">>
    /\ s3key = <<"p", "/", "2", "0", "2", "6", "-", "1", "1", "-", "0", "3", "/",
                 "a", "_", "a">>

\* C22: no log record written by authentication, command dispatch, WriteAt,
\* Close or UploadFile holds the secret access key, and the metadata of every
\* stored object is exactly the client address, the access key id, the upload
\* time in UTC and the original path, none of them the secret.
C22_SecretNotDisclosed ==
    /\ ~leaked
    /\ \A i \in 1..Len(s3puts) :
          LET put == s3puts[i]
              c == ConnOf(put.w)
          IN /\ DOMAIN put.meta
                   = {"client_ip", "access_key_id", "upload_time", "original_path"}
             /\ put.meta.client_ip = ClientIP(c)
             /\ put.meta.access_key_id = KeyOf(c)
             /\ put.meta.upload_time
                   = <<"2", "0", "2", "6", "-", "1", "1", "-", "0", "3",
                       "T", "1", "2", "Z">>
             /\ put.meta.original_path = writers[put.w].path
             /\ put.secretAccessKey = SecretOf(c)
             /\ SecretOf(c) \notin {put.meta.client_ip, put.meta.access_key_id,
                                    put.meta.original_path}

\* an object was stored with the secret of its connection after the
\* attempt, the session, the write and the close were logged
C22_Witness ==
    /\ ~leaked
    /\ \E i \in 1..Len(s3puts) :
          /\ s3puts[i].secretAccessKey = SecretOf(ConnOf(s3puts[i].w))
          /\ s3puts[i].body # <<>>
          /\ s3puts[i].meta.access_key_id = KeyOf(ConnOf(s3puts[i].w))

\* the connections being handled: accepted and not yet closed
Handled == {c \in Conns : conns[c].st \in {"handshake", "open"}}

\* C23: never more than Config.MaxConnections connections are handled at the
\* same time; a connection that arrives at the maximum is closed without a
\* handshake.
C23_AtMostMaxConnections ==
    /\ [](Cardinality(Handled) <= MaxConnections)
    /\ [][\A c \in Conns :
            (Cardinality(Handled) >= MaxConnections /\ Accept(c))
               => conns'[c].st = "closed"]_vars

\* C28: the deadline is set from the moment a connection is accepted and all
\* through the handshake; it is cleared only in the step in which the
\* handshake succeeds, after Authenticate granted permissions; a connection
\* whose handshake fails is closed with the deadline still set, and it has no
\* session and no upload.
C28_DeadlineCoversHandshake ==
    [][\A c \in Conns :
         /\ conns'[c].st = "handshake" => conns'[c].deadline
         /\ (conns[c].deadline /\ ~conns'[c].deadline)
               => /\ conns[c].st = "handshake" /\ conns'[c].st = "open"
                  /\ ~conns[c].perm.nil
                  /\ conns[c].verified = RequiredAccountID
         /\ (conns[c].st = "handshake" /\ conns'[c].st = "closed")
               => /\ conns'[c].deadline
                  /\ conns'[c].session.nil
                  /\ \A w \in 1..Len(writers') : ConnOf(w)' # c
         /\ (conns'[c].st = "closed" /\ conns'[c].deadline)
               => /\ conns'[c].session.nil
                  /\ \A w \in 1..Len(writers') : ConnOf(w)' # c]_vars

\* one handshake failed after a refused attempt and the connection is
\* closed with its deadline set, another succeeded and has none
C28_Witness ==
    \E c, d \in Conns :
        /\ conns[c].st = "closed" /\ conns[c].deadline
        /\ conns[d].st = "open" /\ ~conns[d].deadline /\ ~conns[d].session.nil

\* the errors a denied or failed request returns
FailureErrors ==
    {ErrPermission, ErrInvalid, ErrTooLarge}
        \cup {CloseResult(out) : out \in S3Outcomes \ {"ok"}}

IsFailure(err) == err \in FailureErrors

\* the operations whose failure leaves every variable but the result alone
LocalOps == {"Filewrite", "WriteAt"} \cup Methods

\* C25: a request that is denied or fails changes nothing but its own
\* result: the session, the other writers and the registry stay as they were
\* (a failed Close finishes only its own writer). After such a result the
\* session still opens an upload on any allowed path, writes to it within the
\* limit and closes it, and the object stored holds exactly the bytes written
\* through that writer.
C25_FailureIsLocal ==
    [][/\ (/\ ret'.op \in LocalOps
           /\ IsFailure(ret'.err)
           /\ \/ /\ ret'.op = "Filewrite"
                 /\ FilewriteFrame
                 /\ \E c \in Conns, path \in Paths : Filewrite(c, path)
              \/ /\ ret'.op \in Methods
                 /\ \E c \in Conns, path \in Paths : Filecmd(c, ret'.op, path)
              \/ /\ ret'.op = "WriteAt"
                 /\ \E w \in 1..Len(writers), off \in GatewayOffsets :
                        WriteAt(w, GatewayChunk(w), off))
            =>      /\ conns' = conns /\ writers' = writers /\ s3puts' = s3puts
                    /\ activeUploads' = activeUploads /\ ~crashed'
       /\ (ret'.op = "Close" /\ IsFailure(ret'.err))
            => \A w \in 1..Len(writers) : \A out \in S3Outcomes :
                 (writers[w].mu /\ ~writers'[w].mu /\ CloseReturn(w, out))
                   => /\ conns' = conns /\ ~crashed'
                      /\ \A v \in 1..Len(writers) :
                            v # w => writers'[v] = writers[v]
                      /\ \A q \in DOMAIN activeUploads :
                            q # writers[w].path
                               => /\ q \in DOMAIN activeUploads'
                                  /\ activeUploads'[q] = activeUploads[q]
                      /\ \A i \in 1..Len(s3puts') :
                            i > Len(s3puts) => s3puts'[i].w = w
       /\ (/\ ret'.op = "Filewrite" /\ ret'.err = Nil /\ IsFailure(ret.err)
           /\ FilewriteFrame)
            => \A c \in Conns, path \in Paths :
                 Filewrite(c, path)
                   => /\ Len(writers') = Len(writers) + 1
                      /\ Last(writers').path = path
                      /\ Last(writers').data = <<>>
                      /\ ~Last(writers').closed
                      /\ activeUploads'[path] = Len(writers')
       /\ (ret'.op \in {"Filewrite", "WriteAt", "Close"} /\ IsFailure(ret.err))
            => /\ \A c \in Conns, path \in Paths :
                    (ret'.op = "Filewrite" /\ FilewriteFrame
                       /\ isPathAllowed(virtualDir, path)
                       /\ Filewrite(c, path)) => ret'.err = Nil
               /\ \A w \in 1..Len(writers) :
                    (ret'.op = "WriteAt" /\ ~writers[w].closed
                       /\ WriteAt(w, GatewayChunk(w), 0))
                      => /\ ret'.err = Nil /\ ret'.n = 1
                         /\ writers'[w].data[1] = w
               /\ \A w \in 1..Len(writers) :
                    (ret'.op = "Close" /\ writers[w].mu /\ ~writers'[w].mu
                       /\ CloseReturn(w, "ok"))
                      => /\ ret'.err = Nil
                         /\ Len(s3puts') = Len(s3puts) + 1
                         /\ Last(s3puts').w = w
                         /\ Last(s3puts').body = writers[w].data
                         /\ \A j \in 1..Len(writers[w].data) :
                               writers[w].data[j] \in {0, w}]_vars

\* on one session the Close of the first writer failed and stored nothing,
\* and the second writer, on another path, stored its own byte
C25_Witness ==
    /\ Len(writers) = 2
    /\ writers[1].conn = writers[2].conn
    /\ writers[1].path # writers[2].path
    /\ writers[1].closed /\ ~writers[1].mu /\ writers[1].uploads = 1
    /\ \A i \in 1..Len(s3puts) : s3puts[i].w # 1
    /\ \E i \in 1..Len(s3puts) : s3puts[i].w = 2 /\ s3puts[i].body = <<2>>

\* the UploadState of writer v and the registry entry of path q are the same
\* before and after the step
SameUploadState(v) ==
    /\ writers'[v].data = writers[v].data
    /\ writers'[v].closed = writers[v].closed
    /\ writers'[v].mu = writers[v].mu

SameEntry(q) ==
    /\ (q \in DOMAIN activeUploads') = (q \in DOMAIN activeUploads)
    /\ q \in DOMAIN activeUploads => activeUploads'[q] = activeUploads[q]

\* C27: whatever the interleaving, a WriteAt or a Close on the UploadState of
\* one path leaves the buffer, the closed flag and the registry entry of every
\* UploadState of another path as they were, and the insert of Filewrite and
\* the remove of Close on one path take effect and leave the entries of the
\* other paths in place.
C27_PathsAreIndependent ==
    [][/\ \A w \in 1..Len(writers) :
            (/\ \/ ret'.op = "WriteAt" /\ \E off \in GatewayOffsets :
                                             WriteAt(w, GatewayChunk(w), off)
                \/ writers'[w].mu /\ ~writers[w].mu /\ Close(w)
                \/ ret'.op = "Close" /\ \E out \in S3Outcomes : CloseReturn(w, out))
              => /\ \A v \in 1..Len(writers) :
                       writers[v].path # writers[w].path => SameUploadState(v)
                 /\ \A q \in Paths : q # writers[w].path => SameEntry(q)
       /\ \A w \in 1..Len(writers) :
            (ret'.op = "Close" /\ writers[w].mu
               /\ \E out \in S3Outcomes : CloseReturn(w, out))
              => writers[w].path \notin DOMAIN activeUploads'
       /\ \A c \in Conns, path \in Paths :
            (/\ ret'.op = "Filewrite" /\ ret'.err = Nil /\ FilewriteFrame
             /\ Filewrite(c, path))
              => /\ path \in DOMAIN activeUploads'
                 /\ activeUploads'[path] = Len(writers')
                 /\ \A q \in Paths : q # path => SameEntry(q)
                 /\ \A v \in 1..Len(writers) : SameUploadState(v)]_vars

\* the Close of one writer returned while the writer of another path, which
\* holds a byte, is open and registered
C27_Witness ==
    /\ Len(writers) = 2
    /\ writers[1].path # writers[2].path
    /\ ret.op = "Close"
    /\ writers[1].closed /\ ~writers[1].mu /\ writers[1].uploads = 1
    /\ writers[1].path \notin DOMAIN activeUploads
    /\ ~writers[2].closed /\ writers[2].data = <<2>>
    /\ writers[2].path \in DOMAIN activeUploads
    /\ activeUploads[writers[2].path] = 2

\* the texts of the environments that do not parse as a number, and those
\* that do not parse as a duration
BadIntTexts == {<<"x">>}

BadDurationTexts == {<<"1">>}

\* C26: LoadConfig returns an error and no configuration when S3_BUCKET or
\* AWS_ACCOUNT_ID is unset or empty or when one of SFTP_PORT, MAX_FILE_SIZE,
\* CONNECTION_TIMEOUT, READ_TIMEOUT, WRITE_TIMEOUT, MAX_CONNECTIONS does not
\* parse, and only then. With the numbers ahead of it parsing, a missing
\* S3_BUCKET is reported as 'S3_BUCKET environment variable is required', also
\* when AWS_ACCOUNT_ID is missing too, and a missing AWS_ACCOUNT_ID alone by
\* its own message. A configuration that is returned holds the bucket and
\* the account id of the environment, never a built-in value.
C26_RequiredOrError ==
    cfg.called
      => LET noBucket == env.S3_BUCKET = <<>>
             noAccount == env.AWS_ACCOUNT_ID = <<>>
             badHead == \/ env.SFTP_PORT \in BadIntTexts
                        \/ env.MAX_FILE_SIZE \in BadIntTexts
             badTail == \/ env.CONNECTION_TIMEOUT \in BadDurationTexts
                        \/ env.READ_TIMEOUT \in BadDurationTexts
                        \/ env.WRITE_TIMEOUT \in BadDurationTexts
                        \/ env.MAX_CONNECTIONS \in BadIntTexts
         IN /\ (noBucket \/ noAccount \/ badHead \/ badTail)
                 <=> (cfg.config.nil /\ cfg.err # Nil)
            /\ cfg.config.nil <=> cfg.err # Nil
            /\ (noBucket /\ ~badHead)
                 => cfg.err = Err("S3_BUCKET environment variable is required", "")
            /\ (noAccount /\ ~noBucket /\ ~badHead)
                 => cfg.err = Err("AWS_ACCOUNT_ID environment variable is required", "")
            /\ ~cfg.config.nil
                 => /\ cfg.config.S3Bucket = env.S3_BUCKET
                    /\ cfg.config.S3Bucket # <<>>
                    /\ cfg.config.RequiredAccountID = env.AWS_ACCOUNT_ID
                    /\ cfg.config.RequiredAccountID # <<>>

\* LoadConfig was called with neither S3_BUCKET nor AWS_ACCOUNT_ID set and
\* reported the bucket
C26_Witness ==
    /\ cfg.called
    /\ env.S3_BUCKET = <<>> /\ env.AWS_ACCOUNT_ID = <<>>
    /\ env.MAX_CONNECTIONS = <<"x">>
    /\ cfg.config.nil
    /\ cfg.err.msg = "S3_BUCKET environment variable is required"

\* the goroutines of the accepted connections that have not finished
RunningHandlers == {c \in Conns : handlers[c] \in {"handshake", "serving"}}

RunningTasks == {c \in Conns : tasks[c] \in {"requests", "sftp", "handoff"}}

\* C24: when Run has returned after the shutdown signal, the handler of every
\* accepted connection and every channel task has finished, and the process
\* never ends while a Close is in its storage handoff.
C24_RunWaitsForAll ==
    /\ run = "returned" => (RunningHandlers = {} /\ RunningTasks = {})
    /\ exited => \A c \in Conns : tasks[c] # "handoff"

\* C29: once the context is cancelled no connection is accepted and none is
\* handed to a handler, and a connection is handed to a handler only while
\* the counter the shutdown wait reads includes it and the wait has not
\* returned.
C29_NoAcceptAfterCancel ==
    [][/\ (acceptor.pc = "accept" /\ acceptor'.pc = "add") => ~ctxDone
       /\ \A c \in Conns :
            (handlers[c] = "none" /\ handlers'[c] # "none")
               => /\ ~ctxDone
                  /\ wg' >= Cardinality(RunningHandlers')
                  /\ run' # "returned"]_vars

\* C30: no request a client sends ends the process: whatever the channel
\* request and its payload, the SFTP command or the offset and length of a
\* WriteAt, the handler answers and the server goes on serving.
C30_NoRequestEndsProcess == ~crashed

\* C31 as stated: a Mkdir request is decided by the same isPathAllowed check
\* as a write: it is refused with the permission error for a path outside
\* the virtual root and let through for a path inside it.
C31_MkdirGuarded ==
    [][\A c \in Conns, path \in Paths :
         (ret'.op = "Mkdir" /\ Filecmd(c, "Mkdir", path))
            => (ret'.err = Nil) = isPathAllowed(virtualDir, path)]_vars

\* C31: isPathAllowed gates writes only. A Mkdir request succeeds for every
\* path, inside the virtual root or not, and changes nothing; a write to the
\* same path succeeds exactly when isPathAllowed accepts the path.
C31_MkdirAlwaysAllowed ==
    [][/\ (/\ ret'.op = "Mkdir"
           /\ \E c \in Conns, path \in Paths : Filecmd(c, "Mkdir", path))
            => /\ ret'.err = Nil
               /\ writers' = writers /\ activeUploads' = activeUploads
               /\ s3puts' = s3puts /\ conns' = conns
       /\ (ret'.op = "Filewrite" /\ FilewriteFrame)
            => \A c \in Conns, path \in Paths :
                  Filewrite(c, path)
                    => (ret'.err = Nil) = isPathAllowed(virtualDir, path)]_vars

\* a Mkdir request was answered with success
C31_Witness ==
    /\ ret.op = "Mkdir"
    /\ ret.err = Nil
    /\ \E c \in Conns : Serving(c)

\* the attribute keys of a log record
KeysOf(record) == {a[1] : a \in record}

\* C32: every request of the command table (a write allowed or denied,
\* Remove, Rename, Rmdir, Mkdir, Setstat, an unknown command, read, list and
\* stat) has written, when its result is returned, a log record that carries
\* the client address, the access key id and the path, and for the commands
\* of Filecmd the method.
C32_DispatchLogged ==
    [][/\ \A c \in Conns, path \in Paths :
            (ret'.op \in {"Filewrite", "Fileread", "Fileinfo", "Filelist"}
               /\ (\/ Filewrite(c, path) \/ Fileread(c, path)
                   \/ Fileinfo(c, path) \/ Filelist(c, path)))
              => \E i \in 1..Len(ret'.logs) :
                    {"remote_ip", "access_key_id", "file_path"}
                        \subseteq KeysOf(ret'.logs[i])
       /\ \A c \in Conns, m \in Methods, path \in Paths :
            (ret'.op = m /\ Filecmd(c, m, path))
              => \E i \in 1..Len(ret'.logs) :
                    {"remote_ip", "access_key_id", "file_path", "method"}
                        \subseteq KeysOf(ret'.logs[i])]_vars

\* C33: every authentication attempt, refused or granted, writes exactly one
\* log record, and the record carries the client address and the access key
\* id.
C33_OneRecordPerAttempt ==
    [][\A c \in Conns : \A k \in Keys(c), s \in Secrets(c) :
         \A out \in SdkAnswers(k, s) :
           (ret'.op = "Authenticate" /\ Authenticate(c, k, s, out))
             => /\ Len(ret'.logs) = 1
                /\ \A i \in 1..Len(ret'.logs) :
                      {"remote_ip", "access_key_id"} \subseteq KeysOf(ret'.logs[i])]_vars

\* C34: sanitizing is idempotent: the two replacements applied to the file
\* name of a key, which is already sanitized, return it unchanged, and so do
\* they applied twice to the whole path taken as a name.
C34_SanitizeIdempotent ==
    s3key # <<>>
        => /\ Sanitize(KeyFilename(s3key)) = KeyFilename(s3key)
           /\ Sanitize(Sanitize(keyPath)) = Sanitize(keyPath)
           /\ Sanitize(Sanitize(Base(keyPath))) = Sanitize(Base(keyPath))

\* the key of a base name of four dots and a space, which sanitizing turns
\* into three underscores
C34_Witness ==
    /\ keyPath = <<"/", ".", ".", ".", ".", " ">>
    /\ KeyFilename(s3key) = <<"_", "_", "_">>
    /\ Sanitize(<<"_", "_", "_">>) = <<"_", "_", "_">>

\* C35: with the required variables set, LoadConfig gives every optional
\* variable that is unset its default (port 2222, virtual directory
\* DefaultVirtualDir, file size limit 1048576, timeouts of 30 s, 100
\* connections, no prefix, no region), takes every value that parses as
\* given, and returns a virtual directory that is absolute and clean.
C35_DefaultsAndCleanRoot ==
    (cfg.called /\ ~cfg.config.nil)
      => LET c == cfg.config
         IN /\ c.ServerPort = (IF env.SFTP_PORT = <<>> THEN 2222 ELSE 1)
            /\ c.MaxFileSize = (IF env.MAX_FILE_SIZE = <<>> THEN 1048576 ELSE 1)
            /\ c.MaxConnections = (IF env.MAX_CONNECTIONS = <<>> THEN 100 ELSE 1)
            /\ c.ConnectionTimeout = (IF env.CONNECTION_TIMEOUT = <<>> THEN 30 ELSE 1)
            /\ c.ReadTimeout = (IF env.READ_TIMEOUT = <<>> THEN 30 ELSE 1)
            /\ c.WriteTimeout = (IF env.WRITE_TIMEOUT = <<>> THEN 30 ELSE 1)
            /\ c.S3BucketPrefix = env.S3_BUCKET_PREFIX
            /\ c.S3Region = env.AWS_REGION
            /\ c.S3Bucket = env.S3_BUCKET
            /\ c.RequiredAccountID = env.AWS_ACCOUNT_ID
            /\ env.VIRTUAL_DIR = <<>> => c.VirtualDir = DefaultVirtualDir
            /\ IsAbs(c.VirtualDir)
            /\ Clean(c.VirtualDir) = c.VirtualDir

\* C36: when a Close returns, the registry entry of its path is removed only
\* if that entry refers to the closing writer, so no open writer that was
\* registered loses its entry because another writer on the same path closed.
C36_CloseRemovesOwnEntryOnly ==
    [][\A w \in 1..Len(writers), out \in S3Outcomes :
          (ret'.op = "Close" /\ writers[w].mu /\ CloseReturn(w, out))
             => /\ activeUploads' # activeUploads
                    => activeUploads[writers[w].path] = w
                /\ \A v \in 1..Len(writers) :
                      (/\ v # w
                       /\ ~writers[v].closed
                       /\ writers[v].path \in DOMAIN activeUploads
                       /\ activeUploads[writers[v].path] = v)
                         => /\ writers[v].path \in DOMAIN activeUploads'
                            /\ activeUploads'[writers[v].path] = v]_vars

\* C37: the body Close hands to PutObject is a stable snapshot. From the step
\* in which Close marks the writer closed the buffer never changes again, a
\* WriteAt on a closed writer returns the closed error and writes nothing, and
\* the PutObject made when UploadFile answers carries exactly that buffer.
C37_StableSnapshot ==
    [][/\ \A w \in 1..Len(writers) :
             (writers[w].closed \/ writers[w].mu)
                => writers'[w].data = writers[w].data
       /\ \A w \in 1..Len(writers), off \in GatewayOffsets :
             (/\ ret'.op = "WriteAt"
              /\ writers[w].closed
              /\ WriteAt(w, GatewayChunk(w), off))
                => ret'.err = ErrClosed /\ ret'.n = 0
       /\ \A w \in 1..Len(writers), out \in {"ok", "put_error"} :
             (ret'.op = "Close" /\ writers[w].mu /\ CloseReturn(w, out))
                => /\ Len(s3puts') = Len(s3puts) + 1
                   /\ s3puts'[Len(s3puts')].w = w
                   /\ s3puts'[Len(s3puts')].body = writers[w].data
                   /\ writers'[w].data = writers[w].data]_vars

\* a writer with one byte written was closed and uploaded, and a WriteAt that
\* came after the Close got the closed error
C37_Witness ==
    /\ ret.op = "WriteAt"
    /\ ret.err = ErrClosed
    /\ \E i \in 1..Len(s3puts) :
          /\ writers[s3puts[i].w].closed
          /\ ~writers[s3puts[i].w].mu
          /\ s3puts[i].body = <<s3puts[i].w>>
          /\ writers[s3puts[i].w].data = s3puts[i].body

\* C38: uploads of different sessions are isolated, also on one virtual path
\* at one time: every PutObject made for a writer carries the client address,
\* the access key and the secret of the session that opened the writer, and
\* a body made only of bytes written through that writer (and zero fill).
C38_SessionsIsolated ==
    \A i \in 1..Len(s3puts) :
        LET put == s3puts[i]
            c == ConnOf(put.w)
        IN /\ put.accessKeyID = KeyOf(c)
           /\ put.secretAccessKey = SecretOf(c)
           /\ put.meta.client_ip = ClientIP(c)
           /\ put.meta.access_key_id = KeyOf(c)
           /\ \A j \in 1..Len(put.body) : put.body[j] \in {0, put.w}

\* two sessions uploaded to the same path through writers that were open at
\* the same time, each with its own byte
C38_Witness ==
    /\ Len(s3puts) = 2
    /\ ConnOf(s3puts[1].w) # ConnOf(s3puts[2].w)
    /\ writers[s3puts[1].w].path = writers[s3puts[2].w].path
    /\ ~writers[s3puts[1].w].fresh \/ ~writers[s3puts[2].w].fresh
    /\ s3puts[1].body = <<s3puts[1].w>>
    /\ s3puts[2].body = <<s3puts[2].w>>

\* paths in other directories under the root that end in the base name of path
SameBasePaths(path) ==
    {path,
     DefaultVirtualDir \o <<"/">> \o Base(path),
     DefaultVirtualDir \o <<"/", "d", "/">> \o Base(path)}

\* C39: the key is a function of the prefix, the UTC date and the base name
\* of the path only: a call of generateS3Key with the same prefix, at any
\* instant of the same UTC date, for any path with the same base name in
\* whatever directory, gives the key this upload was written to.
C39_SameBaseSameKey ==
    s3key # <<>>
        => \A q \in SameBasePaths(keyPath), t \in Instants :
              (/\ Base(q) = Base(keyPath)
               /\ FormatDate(UTC(t)) = FormatDate(UTC(now)))
                 => generateS3Key(bucketPrefix, FormatDate(UTC(t)), q) = s3key

\* a key was made for a file inside a directory, and a path in another
\* directory and another instant of the same UTC date share its base name
C39_Witness ==
    /\ s3key # <<>>
    /\ bucketPrefix # <<>>
    /\ Base(keyPath) = <<"a">>
    /\ Len(keyPath) > 2
    /\ \E q \in SameBasePaths(keyPath), t \in Instants :
          /\ q # keyPath /\ t # now
          /\ Base(q) = Base(keyPath)
          /\ FormatDate(UTC(t)) = FormatDate(UTC(now))

\* C40: for every offset and byte slice, a WriteAt on an open writer succeeds
\* only if the offset is not negative and the true sum of offset and length,
\* computed without wrapping, is at most the file size limit; when the true
\* sum is over the limit, also when the signed addition wraps, it returns
\* the size error and leaves the buffer as it was.
C40_TrueSumBounded ==
    [][\A p \in Chunks, off \in Offsets :
          (~writers[1].closed /\ ret'.op = "WriteAt" /\ WriteAt(1, p, off))
             => /\ ret'.err = Nil => (0 <= off /\ off + Len(p) <= MaxFileSize)
                /\ off + Len(p) > MaxFileSize
                     => /\ ret'.err = ErrTooLarge
                        /\ ret'.n = 0
                        /\ writers'[1].data = writers[1].data]_vars
====
